---- MODULE Spec2Model ----
(***************************************************************************)
(* A model of squinter, a read-only SquashFS reader: the shared-reader     *)
(* multiplexer (readermux.rs), the file data reader (filedata.rs), the     *)
(* fragment and metadata block caches (block.rs) and the compressed block  *)
(* reader (compressed.rs).  Each subsystem has its own specification over  *)
(* its own variables; the variables of the other subsystems stay idle.     *)
(***************************************************************************)
EXTENDS Integers, Sequences, FiniteSets, TLC

VARIABLES
    \* ---- readermux.rs: one ReaderMux over a std::io::Cursor ----
    sr,              \* SharedReader: [inner |-> cursor position, active_id |-> id]
    next_client_id,  \* ReaderMux.next_client_id
    clients,         \* the ReaderClients handed out: Seq of [id, pos]
    priv,            \* reference: one private cursor position per client
    mxLast           \* the last operation: what the client got, what a private reader gives

muxVars == <<sr, next_client_id, clients, priv, mxLast>>

VARIABLES
    \* ---- filedata.rs: one FileDataReader over an image ----
    fImg,     \* the input: superblock fields, the file inode, the image bytes
    fBlocks,  \* FileDataReader.blocks: Seq of FileBlockInfo
    fPos,     \* FileDataReader.pos
    fInner,   \* FileDataReader.inner: [kind, rest, bad], the InnerReader
    fLibErr,  \* the decoder library reports a truncated stream as an error (else as its end)
    fSeqOnly, \* history: no seek has been issued on the reader yet
    fLast     \* the last operation and its result

fileVars == <<fImg, fBlocks, fPos, fInner, fLibErr, fSeqOnly, fLast>>

VARIABLES
    \* ---- block.rs: one FragmentBlockCache or MetadataBlockCache ----
    cImg,           \* the input: the bytes of the backing store and the blocks in it
    compressor,     \* cache.compressor
    cMux,           \* cache.inner, the ReaderMux over the backing store
    block_readers,  \* cache.block_readers: block address -> block reader
    readers,        \* the FragmentReaders / MetadataReaders handed out
    decoders,       \* history: block address -> decoders constructed for it
    headers,        \* history: block address -> reads of its header
    produced,       \* history: block address -> bytes its decoders have put out
    cLast           \* the last operation and its result

cacheVars == <<cImg, compressor, cMux, block_readers, readers, decoders, headers,
               produced, cLast>>

VARIABLES
    \* ---- metadata.rs, squashfs.rs: decoded metadata structures ----
    call,      \* a call of a function of a metadata structure: its input, then its result
    readDir,   \* a ReadDir: [table_iter, cur_iter, cur_start, cur_inode_num]
    yielded    \* history: what ReadDir::next has returned, call by call

mdVars == <<call, readDir, yielded>>

VARIABLES
    \* ---- squashfs.rs, path.rs: one SquashFS archive and the path walks on it ----
    fsImg,     \* the input: the inodes of the image, by entry reference
    walk,      \* resolve_absolute_path in progress: the locals of its loop
    fsLast     \* the last operation on the archive and its result

fsVars == <<fsImg, walk, fsLast>>

vars == <<muxVars, fileVars, cacheVars, mdVars, fsVars>>

\* the variables each subsystem leaves alone
notMux == <<fileVars, cacheVars, mdVars, fsVars>>

notFile == <<muxVars, cacheVars, mdVars, fsVars>>

notCache == <<muxVars, fileVars, mdVars, fsVars>>

notMd == <<muxVars, fileVars, cacheVars, fsVars>>

notFs == <<muxVars, fileVars, cacheVars, mdVars>>

\* a subsystem that a specification does not run
MuxIdle ==
    /\ sr = <<>> /\ next_client_id = 0 /\ clients = <<>> /\ priv = <<>> /\ mxLast = <<>>

FileIdle ==
    /\ fImg = <<>> /\ fBlocks = <<>> /\ fPos = 0 /\ fInner = <<>>
    /\ fLibErr = FALSE /\ fSeqOnly = TRUE /\ fLast = <<>>

CacheIdle ==
    /\ cImg = <<>> /\ compressor = "" /\ cMux = <<>> /\ block_readers = <<>>
    /\ readers = <<>> /\ decoders = <<>> /\ headers = <<>> /\ produced = <<>>
    /\ cLast = <<>>

MdIdle ==
    /\ call = <<>> /\ readDir = <<>> /\ yielded = <<>>

FsIdle ==
    /\ fsImg = <<>> /\ walk = <<>> /\ fsLast = <<>>

(***************************************************************************)
(* Helpers                                                                 *)
(***************************************************************************)
Min(a, b) == IF a <= b THEN a ELSE b

\* SeekFrom::{Start, Current, End}(off)
SeekFrom(whence, off) == [whence |-> whence, off |-> off]

Ok(v) == [ok |-> TRUE, val |-> v]

Err(kind) == [ok |-> FALSE, val |-> kind]

(***************************************************************************)
(* std::io::Cursor<Vec<u8>>, the backing store of the tests                *)
(***************************************************************************)
\* Cursor::read: the bytes from pos, at most n of them, none at or past the end
CursorRead(data, pos, n) ==
    IF pos >= Len(data) \/ n = 0 THEN <<>>
    ELSE SubSeq(data, pos + 1, Min(pos + n, Len(data)))

\* Cursor::seek: the new position, or InvalidInput for a negative one; a
\* position past the end is allowed
CursorSeek(len, pos, from) ==
    LET base == CASE from.whence = "Start" -> 0
                  [] from.whence = "Current" -> pos
                  [] OTHER -> len
        target == base + from.off
    IN  IF target < 0 THEN Err("InvalidInput") ELSE Ok(target)

(***************************************************************************)
(* readermux.rs                                                            *)
(***************************************************************************)
MaxClients == 2
MuxLen == 3
MaxBuf == 2
MaxSeek == 4

\* the bytes of the backing store of the mux
MuxData == [i \in 1..MuxLen |-> 10 + i]

\* ReaderMux::new
MuxNew == [inner |-> 0, active_id |-> 0]

\* a mutant of ReaderClient::activate: records the client active, never seeks
ActivateNoSeek(s, id, pos) == [s EXCEPT !.active_id = id]

\* ReaderClient::activate (no failure of the backing seek): a client that is
\* not the active one records itself active and seeks to its stored position
Activate(s, id, pos) ==
    IF s.active_id # id
    THEN [s EXCEPT !.active_id = id, !.inner = pos]
    ELSE s

\* ReaderClient::read over a cursor on data: [sr, pos, out]
ClientRead(data, s, id, pos, n) ==
    LET Got(s1, out) ==
            [sr |-> [s1 EXCEPT !.inner = @ + Len(out)],
             pos |-> pos + Len(out),
             out |-> out]
        Active(s1) == Got(s1, CursorRead(data, s1.inner, n))
    IN  Active(Activate(s, id, pos))

\* ReaderClient::seek over a cursor of length len: [sr, pos, res]
ClientSeek(len, s, id, pos, from) ==
    LET Sought(s1, r) ==
            [sr |-> IF r.ok THEN [s1 EXCEPT !.inner = r.val] ELSE s1,
             pos |-> IF r.ok THEN r.val ELSE pos,
             res |-> r]
        Active(s1) == Sought(s1, CursorSeek(len, s1.inner, from))
    IN  Active(Activate(s, id, pos))

SeekArgs ==
    {SeekFrom("Start", p) : p \in 0..MaxSeek}
    \cup {SeekFrom("Current", d) : d \in {-1, 1}}
    \cup {SeekFrom("End", d) : d \in {-1, 0}}

NoOp == [op |-> "none", id |-> 0, swap |-> FALSE, got |-> Ok(0), want |-> Ok(0)]

MuxStart ==
    /\ sr = MuxNew
    /\ next_client_id = 1
    /\ clients = <<>>
    /\ priv = <<>>
    /\ mxLast = NoOp

MuxInit == MuxStart /\ FileIdle /\ CacheIdle /\ MdIdle /\ FsIdle

\* ReaderMux::client
MuxClient ==
    /\ Len(clients) < MaxClients
    /\ clients' = Append(clients, [id |-> next_client_id, pos |-> 0])
    /\ next_client_id' = next_client_id + 1
    /\ priv' = Append(priv, 0)
    /\ mxLast' = [NoOp EXCEPT !.op = "client", !.id = next_client_id]
    /\ UNCHANGED <<sr, notMux>>

\* <ReaderClient as Read>::read, beside the same read on a private cursor
MuxRead(i, n) ==
    LET c == clients[i]
        r == ClientRead(MuxData, sr, c.id, c.pos, n)
        want == CursorRead(MuxData, priv[i], n)
    IN  /\ r.pos <= MaxSeek
        /\ sr' = r.sr
        /\ clients' = [clients EXCEPT ![i].pos = r.pos]
        /\ priv' = [priv EXCEPT ![i] = @ + Len(want)]
        /\ mxLast' = [op |-> "read", id |-> c.id, swap |-> sr.active_id # c.id,
                      got |-> Ok(r.out), want |-> Ok(want)]
        /\ UNCHANGED <<next_client_id, notMux>>

\* <ReaderClient as Seek>::seek, beside the same seek on a private cursor
MuxSeek(i, from) ==
    LET c == clients[i]
        r == ClientSeek(MuxLen, sr, c.id, c.pos, from)
        want == CursorSeek(MuxLen, priv[i], from)
    IN  /\ (want.ok => want.val <= MaxSeek)
        /\ r.pos <= MaxSeek
        /\ sr' = r.sr
        /\ clients' = [clients EXCEPT ![i].pos = r.pos]
        /\ priv' = [priv EXCEPT ![i] = IF want.ok THEN want.val ELSE @]
        /\ mxLast' = [op |-> "seek", id |-> c.id, swap |-> sr.active_id # c.id,
                      got |-> r.res, want |-> want]
        /\ UNCHANGED <<next_client_id, notMux>>

MuxNext ==
    \/ MuxClient
    \/ \E i \in 1..Len(clients), n \in 0..MaxBuf : MuxRead(i, n)
    \/ \E i \in 1..Len(clients), from \in SeekArgs : MuxSeek(i, from)

SpecMux == MuxInit /\ [][MuxNext]_vars

\* ReaderClient::activate when the backing seek fails: active_id is already
\* assigned (line 54) when the seek (line 55) returns the error
ActivateFailed(s, id) == [s EXCEPT !.active_id = id]

\* a read or seek of a client that is not the active one, whose activation
\* seek fails on the backing stream: the error is returned, pos is kept
MuxOpActivateFails(i) ==
    LET c == clients[i]
    IN  /\ sr.active_id # c.id
        /\ sr' = ActivateFailed(sr, c.id)
        /\ mxLast' = [op |-> "activate_failed", id |-> c.id, swap |-> TRUE,
                      got |-> Err("Io"), want |-> Err("Io")]
        /\ UNCHANGED <<next_client_id, clients, priv, notMux>>

MuxFailNext ==
    \/ MuxNext
    \/ \E i \in 1..Len(clients) : MuxOpActivateFails(i)

\* the mux over a backing stream whose seeks may fail
SpecMuxFail == MuxInit /\ [][MuxFailNext]_vars

(***************************************************************************)
(* Claims on the shared-reader multiplexer                                 *)
(***************************************************************************)
\* C1: under any interleaving of the clients' reads and seeks, every client
\* gets from each operation exactly the result (bytes or position) that a
\* private cursor over the same bytes, started at 0, gives it.
C1_ClientSeesPrivateStream ==
    /\ mxLast.got = mxLast.want
    /\ \A i \in 1..Len(clients) : clients[i].pos = priv[i]

\* a read that returned bytes from a non-zero position right after the
\* stream had been left by another client somewhere else
C1_Witness ==
    /\ mxLast.op = "read"
    /\ mxLast.swap
    /\ Len(mxLast.got.val) >= 1
    /\ mxLast.got.val[1] # MuxData[1]
    /\ \E i \in 1..Len(clients) : clients[i].id # mxLast.id /\ clients[i].pos # sr.inner

\* C7: when the activation seek of a client fails, the mux does not keep
\* that client recorded as active (so that its next operation seeks again).
C7_FailedSwapLeavesClientInactive ==
    mxLast.op = "activate_failed" => sr.active_id # mxLast.id

\* C7, the consequence: a read that follows a failed activation still
\* returns the bytes at the client's own position.
C7_RetryReadsOwnPosition ==
    mxLast.op = "read" => mxLast.got = mxLast.want

(***************************************************************************)
(* The block codec.  The decompressors (flate2, lzma-rs, ruzstd) are       *)
(* libraries; the model gives them one toy codec with their shape: a       *)
(* compressed stream is a sequence of (first byte, count) pairs, each      *)
(* decoding to the ascending run first, first+1, ...; a stream that is     *)
(* empty or ends inside a pair is corrupt.                                 *)
(***************************************************************************)
\* the length of the ascending run that s starts with
RunLen(s) ==
    CHOOSE r \in 1..Len(s) :
        /\ \A j \in 1..r : s[j] = s[1] + j - 1
        /\ (r = Len(s) \/ s[r + 1] # s[1] + r)

RECURSIVE Encode(_)
\* what the image writer stores for a compressed block
Encode(s) ==
    IF s = <<>> THEN <<>>
    ELSE LET r == RunLen(s)
         IN  <<s[1], r>> \o Encode(SubSeq(s, r + 1, Len(s)))

RECURSIVE Decode(_)
\* the decoder's output for a compressed stream z (its valid prefix)
Decode(z) ==
    IF Len(z) < 2 THEN <<>>
    ELSE [i \in 1..z[2] |-> (z[1] + i - 1) % 256] \o Decode(SubSeq(z, 3, Len(z)))

\* whether the decoder accepts the stream to its end
StreamOk(z) == Len(z) >= 2 /\ Len(z) % 2 = 0

RECURSIVE Concat(_)
Concat(ss) == IF ss = <<>> THEN <<>> ELSE Head(ss) \o Concat(Tail(ss))

(***************************************************************************)
(* The input of the file data reader: a file inode and the image it lives  *)
(* in, as mksquashfs lays them out (SquashFS 4.0).                         *)
(***************************************************************************)
\* bit 24 of a size word: the block is stored uncompressed
UncompressedFlag == 16777216

\* the low 24 bits of a size word
SizeMask == 16777215

\* where the file's first data block starts in the image
BlocksStart == 2

BlockSize == 3
BigBlockSize == 32
MaxBlocks == 2

\* the stored forms of a data block: compressed, uncompressed, sparse
Storages == {"C", "U", "S"}

Compressors == {"Gzip", "Xz", "Zstd"}

\* the tail of a file: none, a short last data block, or a fragment at an
\* offset in a fragment block that other files' tails share
Tails(bs) ==
    {[kind |-> "none", stored |-> "C", len |-> 0, off |-> 0]}
    \cup {[kind |-> "block", stored |-> st, len |-> bs - 1, off |-> 0] : st \in {"C", "U"}}
    \cup {[kind |-> "frag", stored |-> st, len |-> bs - 1, off |-> 2] : st \in {"C", "U"}}

\* the size word of a block stored as st in n bytes
SizeWord(st, n) ==
    CASE st = "C" -> n
      [] st = "U" -> n + UncompressedFlag
      [] OTHER -> 0

\* the bytes stored for the data d
StoredBytes(st, d) ==
    CASE st = "C" -> Encode(d)
      [] st = "U" -> d
      [] OTHER -> <<>>

\* the image of a file with the full blocks stored as stor and the tail t:
\* byte i of the file is i, a sparse block is all zero, the other tails of
\* the fragment block are 200.. and 220..
MkImage(comp, bs, stor, t) ==
    LET n == Len(stor)
        size == n * bs + t.len
        content == [i \in 1..size |->
                       IF i <= n * bs /\ stor[((i - 1) \div bs) + 1] = "S" THEN 0 ELSE i]
        data(k) == SubSeq(content, (k - 1) * bs + 1, Min(k * bs, size))
        nb == IF t.kind = "block" THEN n + 1 ELSE n
        st(k) == IF k <= n THEN stor[k] ELSE t.stored
        stored == [k \in 1..nb |-> StoredBytes(st(k), data(k))]
        words == [k \in 1..nb |-> SizeWord(st(k), Len(stored[k]))]
        pad == [i \in 1..BlocksStart |-> 255]
        body == pad \o Concat(stored)
        fragData == [j \in 1..t.off |-> 200 + j]
                    \o SubSeq(content, n * bs + 1, size)
                    \o <<220, 221>>
        fragStored == StoredBytes(t.stored, fragData)
    IN  [compressor |-> comp,
         block_size |-> bs,
         blocks_start |-> BlocksStart,
         has_frag |-> (t.kind = "frag"),
         block_offset |-> t.off,
         file_size |-> size,
         block_sizes |-> words,
         frag_start |-> IF t.kind = "frag" THEN Len(body) ELSE 0,
         frag_size |-> IF t.kind = "frag" THEN SizeWord(t.stored, Len(fragStored)) ELSE 0,
         disk |-> IF t.kind = "frag" THEN body \o fragStored ELSE body,
         content |-> content]

RECURSIVE SeqsUpTo(_, _)
\* the sequences over S of length at most n
SeqsUpTo(S, n) ==
    IF n = 0 THEN {<<>>}
    ELSE LET shorter == SeqsUpTo(S, n - 1)
         IN  shorter \cup {Append(q, x) : q \in {r \in shorter : Len(r) = n - 1}, x \in S}

\* the images of the general specification: small blocks
FileImages ==
    {MkImage(c, BlockSize, stor, t) :
        c \in Compressors, stor \in SeqsUpTo(Storages, MaxBlocks), t \in Tails(BlockSize)}

\* the images of the seek-then-read scenario: three full blocks and more
BigImages ==
    {MkImage(c, BigBlockSize, stor, t) :
        c \in Compressors,
        stor \in {q \in SeqsUpTo({"C", "U"}, 3) : Len(q) = 3},
        t \in Tails(BigBlockSize)}

(***************************************************************************)
(* filedata.rs: FileDataReader                                             *)
(***************************************************************************)
Panic == [ok |-> FALSE, val |-> "panic"]

RECURSIVE DataBlocks(_, _, _, _)
\* FileDataReader::from_inode, the loop over block_sizes: offset advances
\* by the whole size word b, remaining by data_len
DataBlocks(words, bs, offset, remaining) ==
    IF words = <<>> THEN <<>>
    ELSE LET b == Head(words)
             data_len == IF bs <= remaining THEN bs ELSE remaining
         IN  <<[disk_offset |-> offset,
                disk_len |-> b % (SizeMask + 1),
                data_offset |-> 0,
                data_len |-> data_len,
                is_compressed |-> ((b \div UncompressedFlag) % 2 = 0)]>>
             \o DataBlocks(Tail(words), bs, offset + b, remaining - data_len)

\* FileDataReader::from_inode, the tail-end descriptor of a file with a fragment
TailBlock(img) ==
    [disk_offset |-> img.frag_start,
     disk_len |-> img.frag_size % (SizeMask + 1),
     data_offset |-> img.block_offset,
     data_len |-> img.file_size % img.block_size,
     is_compressed |-> ((img.frag_size \div UncompressedFlag) % 2 = 0)]

\* FileDataReader::from_inode: the blocks of the reader
FromInode(img) ==
    DataBlocks(img.block_sizes, img.block_size, img.blocks_start, img.file_size)
    \o (IF img.has_frag THEN <<TailBlock(img)>> ELSE <<>>)

\* FileDataReader::calc_block_and_offset: None at or past file_size, else
\* (block, offset in the block's data, data left in the block); indexing
\* blocks out of range and the u32 subtraction below zero panic
CalcBlockAndOffset(img, bl, p) ==
    IF p >= img.file_size THEN Err("None")
    ELSE LET block_index == p \div img.block_size
             data_offset == p % img.block_size
         IN  IF block_index + 1 > Len(bl) THEN Panic
             ELSE LET b == bl[block_index + 1]
                  IN  IF b.data_len < data_offset THEN Panic
                      ELSE Ok([block |-> b, offset |-> b.data_offset + data_offset,
                               remaining |-> b.data_len - data_offset])

\* the InnerReader variants; rest is what the variant still delivers, bad
\* that the decoder fails once rest is used up
InnerBase == [kind |-> "Base", rest |-> <<>>, bad |-> FALSE]

InnerNone == [kind |-> "None", rest |-> <<>>, bad |-> FALSE]

\* FileDataReader::prepare_inner, lines 129-157: open a reader on the block
\* of c and move it to c.offset.  [res, inner]; libErr is the decoder's
\* answer (error or end of stream) to a read at the end of a corrupt stream
OpenBlock(img, c, libErr) ==
    LET b == c.block
        want == c.offset + c.remaining
        z == CursorRead(img.disk, b.disk_offset, b.disk_len)
        d == Decode(z)
        short == Len(d) < want /\ ~StreamOk(z)
    IN  IF ~b.is_compressed
        THEN \* seek to the target offset, take(data_remaining)
             [res |-> Ok(0),
              inner |-> [kind |-> "Uncompressed", bad |-> FALSE,
                         rest |-> CursorRead(img.disk, b.disk_offset + c.offset, c.remaining)]]
        ELSE CASE img.compressor = "Gzip" ->
                  \* ZlibDecoder over take(disk_len), output cut at offset +
                  \* data_remaining, then offset bytes read and dropped
                  IF Len(d) < c.offset /\ ~StreamOk(z) /\ libErr
                  THEN [res |-> Err("InvalidInput"), inner |-> InnerNone]
                  ELSE [res |-> Ok(0),
                        inner |-> [kind |-> "Gzip", bad |-> short,
                                   rest |-> SubSeq(d, c.offset + 1, Min(Len(d), want))]]
               [] img.compressor = "Xz" ->
                  \* xz_decompress of the whole block into a buffer; the
                  \* cursor over the buffer is not cut at the data's end
                  IF ~StreamOk(z)
                  THEN [res |-> Err("InvalidData"), inner |-> InnerNone]
                  ELSE [res |-> Ok(0),
                        inner |-> [kind |-> "Buffer", bad |-> FALSE,
                                   rest |-> SubSeq(d, c.offset + 1, Len(d))]]
               [] OTHER -> [res |-> Err("Unsupported"), inner |-> InnerNone]

\* FileDataReader::prepare_inner: [res, inner, backing]; an error leaves
\* the reader with InnerReader::None
PrepareInner(img, bl, p, inn, libErr) ==
    IF inn.kind = "None"
    THEN [res |-> Panic, inner |-> InnerNone, backing |-> FALSE]
    ELSE LET c == CalcBlockAndOffset(img, bl, p)
         IN  IF c = Panic
             THEN [res |-> Panic, inner |-> InnerNone, backing |-> FALSE]
             ELSE IF ~c.ok
             THEN [res |-> Err("UnexpectedEof"), inner |-> InnerNone, backing |-> FALSE]
             ELSE LET o == OpenBlock(img, c.val, libErr)
                  IN  [res |-> o.res, inner |-> o.inner, backing |-> TRUE]

\* <InnerReader as Read>::read: [res, inner]
InnerRead(inn, n, libErr) ==
    IF inn.kind = "None" THEN [res |-> Panic, inner |-> inn]
    ELSE LET k == Min(n, Len(inn.rest))
         IN  IF k = 0 /\ n > 0 /\ inn.bad /\ libErr
             THEN [res |-> Err("InvalidInput"), inner |-> inn]
             ELSE [res |-> Ok(SubSeq(inn.rest, 1, k)),
                   inner |-> [inn EXCEPT !.rest = SubSeq(inn.rest, k + 1, Len(inn.rest))]]

\* io::copy(&mut Read::take(&mut inner, dist), &mut io::sink()): reads until
\* dist bytes are dropped or the reader ends; a take of 0 reads nothing
InnerSkip(inn, dist, libErr) ==
    IF dist = 0 THEN [res |-> Ok(0), inner |-> inn]
    ELSE IF inn.kind = "None" THEN [res |-> Panic, inner |-> inn]
    ELSE LET k == Min(dist, Len(inn.rest))
             left == [inn EXCEPT !.rest = SubSeq(inn.rest, k + 1, Len(inn.rest))]
         IN  IF k < dist /\ inn.bad /\ libErr
             THEN [res |-> Err("InvalidInput"), inner |-> left]
             ELSE [res |-> Ok(k), inner |-> left]

\* <FileDataReader as Read>::read: [res, inner, pos, backing]
FdrRead(img, bl, p, inn, n, libErr) ==
    IF p >= img.file_size
    THEN [res |-> Ok(<<>>), inner |-> inn, pos |-> p, backing |-> FALSE]
    ELSE LET p1 == IF inn.kind = "Base"
                   THEN PrepareInner(img, bl, p, inn, libErr)
                   ELSE [res |-> Ok(0), inner |-> inn, backing |-> FALSE]
         IN  IF ~p1.res.ok
             THEN [res |-> p1.res, inner |-> p1.inner, pos |-> p, backing |-> p1.backing]
             ELSE LET r1 == InnerRead(p1.inner, n, libErr)
                  IN  IF ~r1.res.ok
                      THEN [res |-> r1.res, inner |-> r1.inner, pos |-> p,
                            backing |-> p1.backing]
                      ELSE IF Len(r1.res.val) = 0 /\ n # 0
                      THEN \* the end of the block: start a new one
                           LET p2 == PrepareInner(img, bl, p, r1.inner, libErr)
                           IN  IF ~p2.res.ok
                               THEN [res |-> p2.res, inner |-> p2.inner, pos |-> p,
                                     backing |-> TRUE]
                               ELSE LET r2 == InnerRead(p2.inner, n, libErr)
                                    IN  [res |-> r2.res, inner |-> r2.inner,
                                         pos |-> IF r2.res.ok THEN p + Len(r2.res.val) ELSE p,
                                         backing |-> TRUE]
                      ELSE [res |-> r1.res, inner |-> r1.inner,
                            pos |-> p + Len(r1.res.val), backing |-> p1.backing]

\* <FileDataReader as Seek>::seek, the target position
SeekTarget(img, p, from) ==
    LET base == CASE from.whence = "Start" -> 0
                  [] from.whence = "Current" -> p
                  [] OTHER -> img.file_size
    IN  IF base + from.off < 0 THEN Err("InvalidInput") ELSE Ok(base + from.off)

\* <FileDataReader as Seek>::seek: [res, inner, pos, backing]
FdrSeek(img, bl, p, inn, from, libErr) ==
    LET t == SeekTarget(img, p, from)
    IN  IF ~t.ok THEN [res |-> t, inner |-> inn, pos |-> p, backing |-> FALSE]
        ELSE IF inn.kind = "Base"
        THEN [res |-> t, inner |-> inn, pos |-> t.val, backing |-> FALSE]
        ELSE LET cur == CalcBlockAndOffset(img, bl, p)
                 tgt == CalcBlockAndOffset(img, bl, t.val)
             IN  IF ~cur.ok \/ ~tgt.ok
                 THEN \* unwrap() of None
                      [res |-> Panic, inner |-> inn, pos |-> p, backing |-> FALSE]
                 ELSE IF cur.val.block = tgt.val.block /\ cur.val.offset <= tgt.val.offset
                 THEN \* later in the same block: read ahead
                      LET r == InnerSkip(inn, tgt.val.offset - cur.val.offset, libErr)
                          touched == inn.kind \in {"Uncompressed", "Gzip"}
                                     /\ tgt.val.offset > cur.val.offset
                      IN  IF ~r.res.ok
                          THEN [res |-> r.res, inner |-> r.inner, pos |-> p,
                                backing |-> touched]
                          ELSE [res |-> t, inner |-> r.inner, pos |-> t.val,
                                backing |-> touched]
                 ELSE LET q == PrepareInner(img, bl, t.val, inn, libErr)
                      IN  [res |-> IF q.res.ok THEN t ELSE q.res, inner |-> q.inner,
                           pos |-> t.val, backing |-> q.backing]

\* the buffer lengths and the seeks of the general specification
FileBufLens == {0, 1, fImg.block_size + 1}

FileSeekArgs ==
    {SeekFrom("Start", t) : t \in 0..(fImg.file_size + 1)}
    \cup {SeekFrom("Current", d) : d \in {-1, 1}}
    \cup {SeekFrom("End", d) : d \in {-1, 0}}

\* the record of an operation: for a read its buffer length n and the
\* position pos0 it was issued at, for a seek its target position
FileNoOp == [op |-> "open", n |-> 0, pos0 |-> 0, target |-> 0, res |-> Ok(0),
             backing |-> FALSE]

\* SquashFS::open_file_inode / FileDataReader::from_inode on the image img
FileOpen(img) ==
    /\ fImg = img
    /\ fBlocks = FromInode(img)
    /\ fPos = 0
    /\ fInner = InnerBase
    /\ fLibErr \in (IF img.compressor = "Gzip" THEN BOOLEAN ELSE {FALSE})
    /\ fSeqOnly = TRUE
    /\ fLast = FileNoOp

\* <FileDataReader as Read>::read with a buffer of n bytes
FileRead(n) ==
    LET r == FdrRead(fImg, fBlocks, fPos, fInner, n, fLibErr)
    IN  /\ fLast.res # Panic
        /\ fPos' = r.pos
        /\ fInner' = r.inner
        /\ fLast' = [FileNoOp EXCEPT !.op = "read", !.n = n, !.pos0 = fPos,
                                     !.res = r.res, !.backing = r.backing]
        /\ UNCHANGED <<fImg, fBlocks, fLibErr, fSeqOnly, notFile>>

\* <FileDataReader as Seek>::seek
FileSeek(from) ==
    LET r == FdrSeek(fImg, fBlocks, fPos, fInner, from, fLibErr)
        t == SeekTarget(fImg, fPos, from)
    IN  /\ fLast.res # Panic
        /\ t.ok => t.val <= fImg.file_size + 1
        /\ fPos' = r.pos
        /\ fInner' = r.inner
        /\ fSeqOnly' = FALSE
        /\ fLast' = [FileNoOp EXCEPT !.op = "seek", !.target = IF t.ok THEN t.val ELSE -1,
                                     !.res = r.res, !.backing = r.backing]
        /\ UNCHANGED <<fImg, fBlocks, fLibErr, notFile>>

FileInit == (\E img \in FileImages : FileOpen(img)) /\ MuxIdle /\ CacheIdle /\ MdIdle /\ FsIdle

FileNext ==
    \/ \E n \in FileBufLens : FileRead(n)
    \/ \E from \in FileSeekArgs : FileSeek(from)

\* a file data reader under arbitrary reads and seeks
SpecFile == FileInit /\ [][FileNext]_vars

SeekReadInit == (\E img \in BigImages : FileOpen(img)) /\ MuxIdle /\ CacheIdle /\ MdIdle /\ FsIdle

\* the seek-then-read scenario: seek(block_size + 17), read(block_size)
SeekReadNext ==
    \/ FileRead(fImg.block_size)
    \/ FileSeek(SeekFrom("Start", fImg.block_size + 17))

SpecSeekRead == SeekReadInit /\ [][SeekReadNext]_vars

(***************************************************************************)
(* Claims on the file data reader                                          *)
(***************************************************************************)
\* the descriptor that holds file position p
BlockAt(p) == fBlocks[(p \div fImg.block_size) + 1]

\* C2: a read issued at a position p < file_size with a non-empty buffer
\* returns k >= 1 bytes, equal to the file's bytes [p, p+k), and advances
\* the position to p+k, whatever reads and seeks came before.
C2_ReadReturnsFileBytes ==
    (fLast.op = "read" /\ fLast.n >= 1 /\ fLast.pos0 < fImg.file_size) =>
        /\ fLast.res.ok
        /\ Len(fLast.res.val) >= 1
        /\ fLast.pos0 + Len(fLast.res.val) <= fImg.file_size
        /\ fLast.res.val = SubSeq(fImg.content, fLast.pos0 + 1,
                                  fLast.pos0 + Len(fLast.res.val))
        /\ fPos = fLast.pos0 + Len(fLast.res.val)

\* C3: reading from 0 until read returns 0 delivers exactly file_size
\* bytes: no read fails, none returns bytes past file_size, and the end
\* is reported at file_size only.
C3_ReadToEndDeliversFileSize ==
    (fLast.op = "read" /\ fSeqOnly) =>
        /\ fLast.res.ok
        /\ fLast.pos0 + Len(fLast.res.val) <= fImg.file_size
        /\ (fLast.n >= 1 /\ fLast.res.val = <<>>) => fPos = fImg.file_size

\* C4: a seek to an absolute position >= 0 succeeds from every state of
\* the reader and returns the new position, and a read at or past the end
\* returns zero bytes.
C4_SeekAlwaysSucceeds ==
    /\ (fLast.op = "seek" /\ fLast.target >= 0) =>
          (fLast.res = Ok(fLast.target) /\ fPos = fLast.target)
    /\ (fLast.op = "read" /\ fLast.pos0 >= fImg.file_size) => fLast.res = Ok(<<>>)

\* C5: for a file of at least 3 * block_size bytes, the read of block_size
\* bytes at position block_size + 17 returns exactly the file's bytes
\* [block_size + 17, 2 * block_size + 17).
C5_SeekThenReadSpansBlocks ==
    (/\ fLast.op = "read"
     /\ fLast.n = fImg.block_size
     /\ fLast.pos0 = fImg.block_size + 17
     /\ fImg.file_size >= 3 * fImg.block_size) =>
        fLast.res = Ok(SubSeq(fImg.content, fImg.block_size + 18,
                              2 * fImg.block_size + 17))

\* C6: a read in a sparse block (on-disk length zero) returns zero bytes of
\* data, at least one and none past the block, without touching the
\* backing store.
C6_SparseBlockReadsZeros ==
    (/\ fLast.op = "read" /\ fLast.n >= 1 /\ fLast.pos0 < fImg.file_size
     /\ BlockAt(fLast.pos0).disk_len = 0) =>
        /\ fLast.res.ok
        /\ Len(fLast.res.val) >= 1
        /\ \A i \in 1..Len(fLast.res.val) : fLast.res.val[i] = 0
        /\ ~fLast.backing

(***************************************************************************)
(* compressed.rs: a CompressedBlockReader whose source is a ReaderClient   *)
(* of the cache's ReaderMux, under Take(compressed_size)                   *)
(***************************************************************************)
\* the reader before it has read anything: its ReaderClient, what Take
\* leaves of compressed_size, the bytes decoded and not yet handed out,
\* what Take leaves of uncompressed_size
NewDecoder(kind, client, compressed_size, uncompressed_size) ==
    [kind |-> kind, client |-> client, limit |-> compressed_size,
     pending |-> <<>>, out_limit |-> uncompressed_size]

RECURSIVE Pull(_, _, _, _)
\* a streaming decoder reads its source pair by pair until want decoded
\* bytes are pending or the source is at its limit; made counts the bytes
\* it decodes
Pull(disk, s, d, want) ==
    LET More(q, count) == [q EXCEPT !.made = @ + count]
        Fed(r) ==
            LET d1 == [d EXCEPT !.client.pos = r.pos, !.limit = @ - Len(r.out)]
            IN  IF Len(r.out) < 2
                THEN [ok |-> FALSE, sr |-> r.sr, dec |-> d1, made |-> 0]
                ELSE More(Pull(disk, r.sr, [d1 EXCEPT !.pending = @ \o Decode(r.out)],
                               want),
                          r.out[2])
    IN  IF Len(d.pending) >= want \/ d.limit = 0
        THEN [ok |-> TRUE, sr |-> s, dec |-> d, made |-> 0]
        ELSE Fed(ClientRead(disk, s, d.client.id, d.client.pos, Min(2, d.limit)))

\* CompressedBlockReader::new(r, comp, compressed_size, uncompressed_size):
\* xz decodes the whole block into a buffer, zstd reads the head of the
\* frame, gzip and none read nothing yet
CompressedBlockReaderNew(disk, s, client, comp, compressed_size, uncompressed_size) ==
    LET d0(kind) == NewDecoder(kind, client, compressed_size, uncompressed_size)
        Whole(r, data) ==
            [res |-> IF StreamOk(r.out) THEN Ok(0) ELSE Err("InvalidData"),
             sr |-> r.sr,
             dec |-> [d0("Buffer") EXCEPT !.client.pos = r.pos,
                                          !.limit = @ - Len(r.out),
                                          !.pending = data],
             made |-> IF StreamOk(r.out) THEN Len(data) ELSE 0]
        Block(r) == Whole(r, Decode(r.out))
        Framed(q) ==
            [res |-> IF q.ok THEN Ok(0) ELSE Err("InvalidData"),
             sr |-> q.sr, dec |-> q.dec, made |-> q.made]
    IN  CASE comp = "None" ->
               [res |-> Ok(0), sr |-> s, dec |-> d0("Uncompressed"), made |-> 0]
          [] comp = "Gzip" ->
               [res |-> Ok(0), sr |-> s, dec |-> d0("Gzip"), made |-> 0]
          [] comp = "Xz" ->
               Block(ClientRead(disk, s, client.id, client.pos, compressed_size))
          [] comp = "Zstd" ->
               Framed(Pull(disk, s, d0("Zstd"), 1))
          [] OTHER ->
               [res |-> Err("Unsupported"), sr |-> s, dec |-> d0("None"), made |-> 0]

\* <CompressedBlockReader as Read>::read, called by io::copy until k bytes
\* have come or the reader is at its end: the bytes it yields
CompressedBlockReaderRead(disk, s, d, k) ==
    LET Raw(r) ==
            [ok |-> TRUE, err |-> "", sr |-> r.sr, out |-> r.out, made |-> Len(r.out),
             dec |-> [d EXCEPT !.client.pos = r.pos, !.limit = @ - Len(r.out)]]
        Buffered(m) ==
            [ok |-> TRUE, err |-> "", sr |-> s, out |-> SubSeq(d.pending, 1, m),
             made |-> 0,
             dec |-> [d EXCEPT !.pending = SubSeq(@, m + 1, Len(@))]]
        Taken(q, m) ==
            [ok |-> q.ok,
             err |-> IF d.kind = "Zstd" THEN "Other" ELSE "InvalidInput",
             sr |-> q.sr, out |-> SubSeq(q.dec.pending, 1, m), made |-> q.made,
             dec |-> [q.dec EXCEPT !.pending = SubSeq(@, m + 1, Len(@)),
                                   !.out_limit = @ - m]]
        Streamed(q, want) == Taken(q, Min(want, Len(q.dec.pending)))
    IN  CASE d.kind = "Uncompressed" ->
               IF d.limit = 0
               THEN [ok |-> TRUE, err |-> "", sr |-> s, out |-> <<>>, made |-> 0,
                     dec |-> d]
               ELSE Raw(ClientRead(disk, s, d.client.id, d.client.pos, Min(k, d.limit)))
          [] d.kind = "Buffer" ->
               Buffered(Min(k, Len(d.pending)))
          [] OTHER ->
               Streamed(Pull(disk, s, d, Min(k, d.out_limit)), Min(k, d.out_limit))

(***************************************************************************)
(* block.rs: CachingReader, and the ReaderMux over it that a cache keeps   *)
(* per block.  A block reader b is [sr, next_client_id, cache, dec]: the   *)
(* SharedReader of its mux (sr.inner is the position of the cache Cursor), *)
(* the cached bytes and the CompressedBlockReader.                         *)
(***************************************************************************)
\* CachingReader::new_with_capacity under ReaderMux::new
NewBlockReader(d) ==
    [sr |-> MuxNew, next_client_id |-> 1, cache |-> <<>>, dec |-> d]

\* <CachingReader as Read>::read with a buffer of n bytes; s is the
\* SharedReader of the cache's mux over the backing store
CachingReaderRead(disk, s, b, n) ==
    LET initial_pos == b.sr.inner
        end_pos == initial_pos + n
        Hit(out) ==
            [res |-> Ok(out), sr |-> s, made |-> 0,
             b |-> [b EXCEPT !.sr.inner = initial_pos + Len(out)]]
        Got(f, cache1, out) ==
            [res |-> Ok(out), sr |-> f.sr, made |-> f.made,
             b |-> [b EXCEPT !.cache = cache1, !.dec = f.dec,
                             !.sr.inner = initial_pos + Len(out)]]
        Cached(f, cache1) ==
            IF f.ok
            THEN Got(f, cache1, CursorRead(cache1, initial_pos, n))
            ELSE [res |-> Err(f.err), sr |-> f.sr, made |-> f.made,
                  b |-> [b EXCEPT !.cache = cache1, !.dec = f.dec,
                                  !.sr.inner = Len(cache1)]]
        Filled(f) == Cached(f, b.cache \o f.out)
    IN  IF end_pos > Len(b.cache)
        THEN Filled(CompressedBlockReaderRead(disk, s, b.dec, end_pos - Len(b.cache)))
        ELSE Hit(CursorRead(b.cache, initial_pos, n))

\* a variant that reads where the cache Cursor stands, whichever client moved it last
BlockClientReadUnpositioned(disk, s, b, c, n) ==
    LET Done(r) ==
            [res |-> r.res, sr |-> r.sr, b |-> r.b, made |-> r.made,
             pos |-> IF r.res.ok THEN c.pos + Len(r.res.val) ELSE c.pos]
    IN  Done(CachingReaderRead(disk, s, [b EXCEPT !.sr.active_id = c.id], n))

\* ReaderClient::read of the client c = [id, pos] of a block reader
BlockClientRead(disk, s, b, c, n) ==
    LET Done(r) ==
            [res |-> r.res, sr |-> r.sr, b |-> r.b, made |-> r.made,
             pos |-> IF r.res.ok THEN c.pos + Len(r.res.val) ELSE c.pos]
    IN  Done(CachingReaderRead(disk, s, [b EXCEPT !.sr = Activate(b.sr, c.id, c.pos)], n))

\* ReaderClient::seek of the client c of a block reader; CachingReader::seek
\* is the seek of the cache Cursor
BlockClientSeek(b, c, from) ==
    LET Done(r) == [res |-> r.res, b |-> [b EXCEPT !.sr = r.sr], pos |-> r.pos]
    IN  Done(ClientSeek(Len(b.cache), b.sr, c.id, c.pos, from))

\* ReaderMux::new over the backing store of a cache
NewCacheMux == [sr |-> MuxNew, next_client_id |-> 1]

(***************************************************************************)
(* block.rs: FragmentBlockCache and FragmentReader                         *)
(***************************************************************************)
\* the decoded length of a fragment block, and where the first fragment
\* block starts in the backing store
FragLen == 3
FragStart == 1

FragCompressors == {"None", "Gzip", "Xz", "Zstd"}

\* the decoded bytes of the k-th fragment block: two ascending runs
FragData(k) == [i \in 1..FragLen |-> 40 * k + i + (IF i > 2 THEN 10 ELSE 0)]

\* the files that are open together: two whose tails share the first
\* block, or two whose tails are in different blocks
FragScenarios == {"shared", "apart"}

\* a backing store with two fragment blocks, one behind the other, and
\* the tails of two files: the first block from its start, and either a
\* byte inside the first block or the end of the second block
FragImage(comp, sc) ==
    LET stored(k) == IF comp = "None" THEN FragData(k) ELSE Encode(FragData(k))
        blk(k) == [size |-> Len(stored(k)), usize |-> FragLen, data |-> FragData(k)]
        a1 == FragStart
        a2 == a1 + Len(stored(1))
    IN  [disk |-> [i \in 1..FragStart |-> 255] \o stored(1) \o stored(2),
         blocks |-> (a1 :> blk(1)) @@ (a2 :> blk(2)),
         files |-> <<[addr |-> a1, offset |-> 0, len |-> FragLen],
                     IF sc = "shared"
                     THEN [addr |-> a1, offset |-> 1, len |-> 1]
                     ELSE [addr |-> a2, offset |-> 1, len |-> FragLen - 1]>>]

\* a file whose fragment reader has not been asked for
NotOpen == <<>>

\* FragmentBlockCache::create_block_reader
CreateBlockReader(disk, mux, comp, block_addr, block_size, uncompressed_size) ==
    LET id == mux.next_client_id
        Built(cn) ==
            [res |-> cn.res,
             mux |-> [sr |-> cn.sr, next_client_id |-> id + 1],
             reader |-> NewBlockReader(cn.dec),
             made |-> cn.made]
        At(sk) ==
            Built(CompressedBlockReaderNew(disk, sk.sr, [id |-> id, pos |-> sk.pos],
                                           comp, block_size, uncompressed_size))
    IN  At(ClientSeek(Len(disk), mux.sr, id, 0, SeekFrom("Start", block_addr)))

\* a mutant of get_or_create_block_reader: no lookup, a new block reader
\* for every request
GetOrCreateAlwaysCreates(disk, mux, comp, brs, block_addr, block_size, uncompressed_size) ==
    LET Insert(c) ==
            [res |-> c.res, mux |-> c.mux,
             block_readers |-> IF c.res.ok THEN (block_addr :> c.reader) @@ brs ELSE brs,
             created |-> IF c.res.ok THEN 1 ELSE 0,
             made |-> c.made]
    IN  Insert(CreateBlockReader(disk, mux, comp, block_addr, block_size,
                                 uncompressed_size))

\* FragmentBlockCache::get_or_create_block_reader: the entry of block_addr
\* if there is one, else a new block reader, inserted if its construction
\* succeeds
GetOrCreateBlockReader(disk, mux, comp, brs, block_addr, block_size, uncompressed_size) ==
    LET Insert(c) ==
            [res |-> c.res, mux |-> c.mux,
             block_readers |-> IF c.res.ok THEN (block_addr :> c.reader) @@ brs ELSE brs,
             created |-> IF c.res.ok THEN 1 ELSE 0,
             made |-> c.made]
    IN  IF block_addr \in DOMAIN brs
        THEN [res |-> Ok(0), mux |-> mux, block_readers |-> brs, created |-> 0,
              made |-> 0]
        ELSE Insert(CreateBlockReader(disk, mux, comp, block_addr, block_size,
                                      uncompressed_size))

\* a mutant of FragmentReader::new: the client is not moved to the offset
FragmentReaderNewAtZero(b, block_addr, offset, len) ==
    [res |-> Ok(0),
     b |-> [b EXCEPT !.next_client_id = @ + 1],
     reader |-> [addr |-> block_addr, client |-> [id |-> b.next_client_id, pos |-> 0],
                 offset |-> offset, len |-> len, pos |-> 0]]

\* block_reader.client() and FragmentReader::new(client, offset, len)
FragmentReaderNew(b, block_addr, offset, len) ==
    LET Sought(k) ==
            [res |-> k.res,
             b |-> k.b,
             reader |-> [addr |-> block_addr,
                         client |-> [id |-> b.next_client_id, pos |-> k.pos],
                         offset |-> offset, len |-> len, pos |-> 0]]
    IN  Sought(BlockClientSeek([b EXCEPT !.next_client_id = @ + 1],
                               [id |-> b.next_client_id, pos |-> 0],
                               SeekFrom("Start", offset)))

\* <FragmentReader as Read>::read with a buffer of n bytes
FragmentReaderRead(disk, s, b, fr, n) ==
    LET Got(r, got) ==
            [res |-> IF r.res.ok /\ fr.pos + got > fr.len THEN Panic ELSE r.res,
             sr |-> r.sr, b |-> r.b, made |-> r.made,
             reader |-> [fr EXCEPT !.client.pos = r.pos, !.pos = @ + got]]
        Done(r) == Got(r, IF r.res.ok THEN Len(r.res.val) ELSE 0)
    IN  IF fr.pos >= fr.len
        THEN [res |-> Ok(<<>>), sr |-> s, b |-> b, reader |-> fr, made |-> 0]
        ELSE Done(BlockClientRead(disk, s, b, fr.client, Min(n, fr.len - fr.pos)))

\* <FragmentReader as Seek>::seek
FragmentReaderSeek(b, fr, from) ==
    LET bad == \/ from.whence = "End" /\ fr.len + from.off < 0
               \/ from.whence = "Current" /\ fr.pos + from.off < 0
        inner_from == CASE from.whence = "Start" -> SeekFrom("Start", fr.offset + from.off)
                        [] from.whence = "End" ->
                             SeekFrom("Start", fr.offset + fr.len + from.off)
                        [] OTHER -> from
        Sought(k) ==
            IF ~k.res.ok THEN [res |-> k.res, b |-> k.b, reader |-> fr]
            ELSE IF k.res.val < fr.offset
                 THEN [res |-> Panic, b |-> k.b,
                       reader |-> [fr EXCEPT !.client.pos = k.pos]]
            ELSE [res |-> Ok(k.res.val - fr.offset), b |-> k.b,
                  reader |-> [fr EXCEPT !.client.pos = k.pos,
                                        !.pos = k.res.val - fr.offset]]
    IN  IF bad THEN [res |-> Panic, b |-> b, reader |-> fr]
        ELSE Sought(BlockClientSeek(b, fr.client, inner_from))

FragBufLens == {1, FragLen}

FragSeekArgs ==
    {SeekFrom("Start", p) : p \in {0, 1}}
    \cup {SeekFrom("Current", d) : d \in {-1, 1}}
    \cup {SeekFrom("End", d) : d \in {-1, 0}}

\* the record of an operation of a cache: the reader it was issued on and
\* its result
CacheNoOp == [op |-> "new", i |-> 0, res |-> Ok(0)]

\* FragmentBlockCache::new over the image of a compressor
FragNew(comp, sc) ==
    \E img \in {FragImage(comp, sc)} :
        /\ cImg = img
        /\ compressor = comp
        /\ cMux = NewCacheMux
        /\ block_readers = <<>>
        /\ readers = [f \in DOMAIN img.files |-> NotOpen]
        /\ decoders = [a \in DOMAIN img.blocks |-> 0]
        /\ headers = [a \in DOMAIN img.blocks |-> 0]
        /\ produced = [a \in DOMAIN img.blocks |-> 0]
        /\ cLast = CacheNoOp

FragInit ==
    /\ \E comp \in FragCompressors, sc \in FragScenarios : FragNew(comp, sc)
    /\ MuxIdle /\ FileIdle /\ MdIdle /\ FsIdle

\* FragmentBlockCache::get_fragment_reader for the tail of the i-th file
GetFragmentReader(i) ==
    LET file == cImg.files[i]
        blk == cImg.blocks[file.addr]
        Handed(g, f) ==
            /\ cMux' = g.mux
            /\ decoders' = [decoders EXCEPT ![file.addr] = @ + g.created]
            /\ produced' = [produced EXCEPT ![file.addr] = @ + g.made]
            /\ IF ~g.res.ok
               THEN /\ block_readers' = g.block_readers
                    /\ readers' = readers
                    /\ cLast' = [CacheNoOp EXCEPT !.op = "get", !.i = i, !.res = g.res]
               ELSE /\ block_readers' = [g.block_readers EXCEPT ![file.addr] = f.b]
                    /\ readers' = IF f.res.ok THEN [readers EXCEPT ![i] = f.reader]
                                  ELSE readers
                    /\ cLast' = [CacheNoOp EXCEPT !.op = "get", !.i = i,
                                                  !.res = IF f.res.ok THEN Ok(0)
                                                          ELSE f.res]
        Got(g) ==
            Handed(g, FragmentReaderNew(g.block_readers[file.addr], file.addr,
                                        file.offset, file.len))
    IN  /\ cLast.res # Panic
        /\ readers[i] = NotOpen
        /\ Got(GetOrCreateBlockReader(cImg.disk, cMux, compressor, block_readers,
                                      file.addr, blk.size, blk.usize))
        /\ UNCHANGED <<cImg, compressor, headers, notCache>>

\* a read on the fragment reader of the i-th file
FragRead(i, n) ==
    LET fr == readers[i]
        Done(r) ==
            /\ cMux' = [cMux EXCEPT !.sr = r.sr]
            /\ block_readers' = [block_readers EXCEPT ![fr.addr] = r.b]
            /\ readers' = [readers EXCEPT ![i] = r.reader]
            /\ produced' = [produced EXCEPT ![fr.addr] = @ + r.made]
            /\ cLast' = [CacheNoOp EXCEPT !.op = "read", !.i = i, !.res = r.res]
    IN  /\ cLast.res # Panic
        /\ fr # NotOpen
        /\ Done(FragmentReaderRead(cImg.disk, cMux.sr, block_readers[fr.addr], fr, n))
        /\ UNCHANGED <<cImg, compressor, decoders, headers, notCache>>

\* a seek on the fragment reader of the i-th file
FragSeek(i, from) ==
    LET fr == readers[i]
        Done(r) ==
            /\ r.reader.pos <= fr.len + 1
            /\ block_readers' = [block_readers EXCEPT ![fr.addr] = r.b]
            /\ readers' = [readers EXCEPT ![i] = r.reader]
            /\ cLast' = [CacheNoOp EXCEPT !.op = "seek", !.i = i, !.res = r.res]
    IN  /\ cLast.res # Panic
        /\ fr # NotOpen
        /\ Done(FragmentReaderSeek(block_readers[fr.addr], fr, from))
        /\ UNCHANGED <<cImg, compressor, cMux, decoders, headers, produced, notCache>>

FragNext ==
    \/ \E i \in DOMAIN readers : GetFragmentReader(i)
    \/ \E i \in DOMAIN readers, n \in FragBufLens : FragRead(i, n)
    \/ \E i \in DOMAIN readers, from \in FragSeekArgs : FragSeek(i, from)

\* a fragment block cache and its readers under arbitrary interleavings
SpecFrag == FragInit /\ [][FragNext]_vars

(***************************************************************************)
(* Claims on the fragment block cache                                      *)
(***************************************************************************)
\* the bytes that the fragment reader fr is a view of
Window(fr) ==
    SubSeq(cImg.blocks[fr.addr].data, fr.offset + 1, fr.offset + fr.len)

\* C9: however many fragment readers are requested for a block address and
\* however they read, exactly one decoder is constructed for an address
\* that has a block reader (none for the others), the decoder puts out no
\* more bytes than the block decodes to, and the cached bytes are a prefix
\* of the decoded block.
C9_OneDecoderPerFragmentBlock ==
    \A a \in DOMAIN cImg.blocks :
        /\ decoders[a] = (IF a \in DOMAIN block_readers THEN 1 ELSE 0)
        /\ produced[a] <= Len(cImg.blocks[a].data)
        /\ a \in DOMAIN block_readers =>
              block_readers[a].cache =
                  SubSeq(cImg.blocks[a].data, 1, Len(block_readers[a].cache))

\* two files share a fragment block, both readers have read their window
\* to its end and the whole block has been decoded
C9_Witness ==
    /\ readers[1] # NotOpen /\ readers[2] # NotOpen
    /\ readers[1].addr = readers[2].addr
    /\ readers[1].pos = readers[1].len /\ readers[2].pos = readers[2].len
    /\ decoders[readers[1].addr] = 1
    /\ produced[readers[1].addr] = Len(cImg.blocks[readers[1].addr].data)

\* C10: after every operation that returns, the position of each fragment
\* reader's client in the decoded block is offset + pos; a read returns the
\* bytes of the window from the reader's position on, at least one while
\* the position is before the end of the window and none from there on; a
\* seek returns the position relative to the start of the window.
C10_FragmentReaderIsWindow ==
    cLast.res # Panic =>
        /\ \A i \in DOMAIN readers :
              readers[i] # NotOpen =>
                  readers[i].client.pos = readers[i].offset + readers[i].pos
        /\ cLast.op = "read" =>
              LET fr == readers[cLast.i]
                  k == Len(cLast.res.val)
                  pos0 == fr.pos - k
              IN  /\ cLast.res.ok
                  /\ IF pos0 >= fr.len THEN k = 0
                     ELSE /\ k >= 1
                          /\ pos0 + k <= fr.len
                          /\ cLast.res.val = SubSeq(Window(fr), pos0 + 1, pos0 + k)
        /\ (cLast.op = "seek" /\ cLast.res.ok) =>
              cLast.res.val = readers[cLast.i].pos

\* a reader at an offset inside its block has just been told that its
\* window is at its end, while the other reader is in the middle of its
\* window and was the last to use the backing store
C10_Witness ==
    /\ cLast.op = "read" /\ cLast.res = Ok(<<>>)
    /\ readers[cLast.i].offset > 0
    /\ readers[cLast.i].pos = readers[cLast.i].len
    /\ \E j \in DOMAIN readers :
          /\ j # cLast.i
          /\ readers[j] # NotOpen
          /\ readers[j].pos > 0 /\ readers[j].pos < readers[j].len

(***************************************************************************)
(* block.rs: MetadataBlockCache, MetadataBlockReaderMux,                   *)
(* MetadataBlockReader and MetadataReader                                  *)
(***************************************************************************)
\* METADATA_UNCOMPRESSED_BLOCK_SIZE
MetadataBlockSize == 8192

\* the bit of a block header that marks the block as stored uncompressed,
\* and the mask of its length
MetaUncompressedFlag == 32768
MetaSizeMask == 32767

\* the decoded length of a metadata block, where the metadata section
\* starts, and how many clients a block reader hands out
MetaLen == 2
MetaStart == 1
MaxBlockClients == 2

MetaCompressors == {"Gzip", "Xz", "Zstd"}

\* the stored forms of the two blocks of the section: the first
\* compressed, the second uncompressed
MetaStorages == {<<"C", "U">>}

\* the decoded bytes of the k-th metadata block: two ascending runs
MetaData(k) == [i \in 1..MetaLen |-> 60 * k + i + (IF i > 1 THEN 5 ELSE 0)]

\* a u16 as it is stored, little-endian
U16LE(h) == <<h % 256, h \div 256>>

\* a metadata section of two blocks, each behind its header, and the
\* entry references into it
MetaImage(stor) ==
    LET stored(k) == StoredBytes(stor[k], MetaData(k))
        header(k) == Len(stored(k)) + (IF stor[k] = "U" THEN MetaUncompressedFlag ELSE 0)
        blk(k) == [size |-> Len(stored(k)), data |-> MetaData(k)]
        Laid(a1, a2, end) ==
            [disk |-> [i \in 1..MetaStart |-> 255]
                      \o U16LE(header(1)) \o stored(1)
                      \o U16LE(header(2)) \o stored(2),
             blocks |-> (a1 :> blk(1)) @@ (a2 :> blk(2)),
             section_start |-> a1,
             section_end |-> end,
             refs |-> {[location |-> 0, offset |-> 0],
                       [location |-> a2 - a1, offset |-> 1]}]
    IN  Laid(MetaStart,
             MetaStart + 2 + Len(stored(1)),
             MetaStart + 2 + Len(stored(1)) + 2 + Len(stored(2)))

\* a mutant of MetadataBlockReaderMux::new: the length of the header is
\* not checked against the metadata block size
MetadataBlockReaderMuxNewNoLimit(disk, mux, comp, block_addr) ==
    LET id == mux.next_client_id
        none == [inner |-> NewBlockReader(<<>>), block_addr |-> block_addr,
                 block_size |-> 0]
        Failed(kind, s1) ==
            [res |-> Err(kind), mux |-> [sr |-> s1, next_client_id |-> id + 1],
             reader |-> none, hdrs |-> 1, made |-> 0]
        Built(cn, block_size) ==
            [res |-> cn.res,
             mux |-> [sr |-> cn.sr, next_client_id |-> id + 1],
             reader |-> [inner |-> NewBlockReader(cn.dec), block_addr |-> block_addr,
                         block_size |-> block_size],
             hdrs |-> 1, made |-> cn.made]
        Sized(hd, block_size, compressed) ==
            Built(CompressedBlockReaderNew(disk, hd.sr, [id |-> id, pos |-> hd.pos],
                                           IF compressed THEN comp ELSE "None",
                                           block_size, MetadataBlockSize),
                  block_size)
        Parsed(hd, header) ==
            Sized(hd, header % (MetaSizeMask + 1),
                  (header \div MetaUncompressedFlag) % 2 = 0)
        Header(hd) ==
            IF Len(hd.out) < 2
            THEN Failed("UnexpectedEof", hd.sr)
            ELSE Parsed(hd, hd.out[1] + 256 * hd.out[2])
        At(sk) == Header(ClientRead(disk, sk.sr, id, sk.pos, 2))
    IN  At(ClientSeek(Len(disk), mux.sr, id, 0, SeekFrom("Start", block_addr)))

\* MetadataBlockReaderMux::new(client, block_addr, compressor), client a new
\* client of the cache's mux: [res, mux, reader, hdrs, made]
MetadataBlockReaderMuxNew(disk, mux, comp, block_addr) ==
    LET id == mux.next_client_id
        none == [inner |-> NewBlockReader(<<>>), block_addr |-> block_addr,
                 block_size |-> 0]
        Failed(kind, s1) ==
            [res |-> Err(kind), mux |-> [sr |-> s1, next_client_id |-> id + 1],
             reader |-> none, hdrs |-> 1, made |-> 0]
        Built(cn, block_size) ==
            [res |-> cn.res,
             mux |-> [sr |-> cn.sr, next_client_id |-> id + 1],
             reader |-> [inner |-> NewBlockReader(cn.dec), block_addr |-> block_addr,
                         block_size |-> block_size],
             hdrs |-> 1, made |-> cn.made]
        Sized(hd, block_size, compressed) ==
            IF block_size > MetadataBlockSize
            THEN Failed("InvalidData", hd.sr)
            ELSE Built(CompressedBlockReaderNew(disk, hd.sr, [id |-> id, pos |-> hd.pos],
                                                IF compressed THEN comp ELSE "None",
                                                block_size, MetadataBlockSize),
                       block_size)
        Parsed(hd, header) ==
            Sized(hd, header % (MetaSizeMask + 1),
                  (header \div MetaUncompressedFlag) % 2 = 0)
        Header(hd) ==
            IF Len(hd.out) < 2
            THEN Failed("UnexpectedEof", hd.sr)
            ELSE Parsed(hd, hd.out[1] + 256 * hd.out[2])
        At(sk) == Header(ClientRead(disk, sk.sr, id, sk.pos, 2))
    IN  At(ClientSeek(Len(disk), mux.sr, id, 0, SeekFrom("Start", block_addr)))

\* MetadataBlockReaderMux::client: the MetadataBlockReader and the mux after
MetadataBlockReaderMuxClient(m) ==
    [reader |-> [inner |-> [id |-> m.inner.next_client_id, pos |-> 0],
                 block_addr |-> m.block_addr, block_size |-> m.block_size],
     m |-> [m EXCEPT !.inner.next_client_id = @ + 1]]

\* a mutant of get_block_reader: no lookup, a new block reader mux for
\* every request
GetBlockReaderAlwaysCreates(disk, mux, comp, brs, block_addr) ==
    LET Inserted(c, k) ==
            [res |-> c.res, mux |-> c.mux,
             block_readers |-> IF c.res.ok THEN (block_addr :> k.m) @@ brs ELSE brs,
             reader |-> k.reader,
             created |-> IF c.res.ok THEN 1 ELSE 0, hdrs |-> c.hdrs, made |-> c.made]
        Vacant(c) == Inserted(c, MetadataBlockReaderMuxClient(c.reader))
    IN  Vacant(MetadataBlockReaderMuxNew(disk, mux, comp, block_addr))

\* MetadataBlockCache::get_block_reader: a client of the entry of
\* block_addr if there is one, else of a new block reader mux, inserted if
\* its construction succeeds
GetBlockReader(disk, mux, comp, brs, block_addr) ==
    LET Occupied(k) ==
            [res |-> Ok(0), mux |-> mux,
             block_readers |-> [brs EXCEPT ![block_addr] = k.m],
             reader |-> k.reader, created |-> 0, hdrs |-> 0, made |-> 0]
        Inserted(c, k) ==
            [res |-> c.res, mux |-> c.mux,
             block_readers |-> IF c.res.ok THEN (block_addr :> k.m) @@ brs ELSE brs,
             reader |-> k.reader,
             created |-> IF c.res.ok THEN 1 ELSE 0, hdrs |-> c.hdrs, made |-> c.made]
        Vacant(c) == Inserted(c, MetadataBlockReaderMuxClient(c.reader))
    IN  IF block_addr \in DOMAIN brs
        THEN Occupied(MetadataBlockReaderMuxClient(brs[block_addr]))
        ELSE Vacant(MetadataBlockReaderMuxNew(disk, mux, comp, block_addr))

\* a mutant of next_block_addr: the decoded length of the block in place
\* of its on-disk length
NextBlockAddrUncompressed(r) == r.block_addr + 2 + MetaLen

\* MetadataBlockReader::next_block_addr
NextBlockAddr(r) == r.block_addr + 2 + r.block_size

\* <MetadataBlockReader as Read>::read on the cache state
\* [mux, block_readers]: [res, mux, block_readers, inner, made]
MetadataBlockReaderRead(disk, mux, brs, r, n) ==
    LET Done(k) ==
            [res |-> k.res,
             mux |-> [mux EXCEPT !.sr = k.sr],
             block_readers |-> [brs EXCEPT ![r.block_addr].inner = k.b],
             inner |-> [r EXCEPT !.inner.pos = k.pos],
             made |-> k.made]
    IN  Done(BlockClientRead(disk, mux.sr, brs[r.block_addr].inner, r.inner, n))

\* <MetadataBlockReader as Seek>::seek: [res, block_readers, inner]
MetadataBlockReaderSeek(brs, r, from) ==
    LET Done(k) ==
            [res |-> k.res,
             block_readers |-> [brs EXCEPT ![r.block_addr].inner = k.b],
             inner |-> [r EXCEPT !.inner.pos = k.pos]]
    IN  Done(BlockClientSeek(brs[r.block_addr].inner, r.inner, from))

\* Option<u64>
Some(x) == [some |-> TRUE, val |-> x]

\* MetadataReader::new(cache, section_start, section_end, entry_addr)
MetadataReaderNew(disk, mux, comp, brs, section_start, section_end, entry_addr) ==
    LET Sought(g, k) ==
            [res |-> IF k.res.ok THEN Ok(0) ELSE k.res,
             mux |-> g.mux,
             block_readers |-> k.block_readers,
             reader |-> IF k.res.ok
                        THEN [inner |-> k.inner, section_start |-> section_start,
                              section_end |-> section_end]
                        ELSE NotOpen,
             created |-> g.created, hdrs |-> g.hdrs, made |-> g.made]
        Got(g) ==
            IF ~g.res.ok
            THEN [res |-> g.res, mux |-> g.mux, block_readers |-> g.block_readers,
                  reader |-> NotOpen,
                  created |-> g.created, hdrs |-> g.hdrs, made |-> g.made]
            ELSE Sought(g, MetadataBlockReaderSeek(g.block_readers, g.reader,
                                                   SeekFrom("Current", entry_addr.offset)))
    IN  Got(GetBlockReader(disk, mux, comp, brs, section_start + entry_addr.location))

\* a mutant of seek_ref: the offset of the reference is taken relative to
\* the position of the block reader
MetadataReaderSeekRefCurrent(disk, mux, comp, brs, mr, addr) ==
    LET Sought(g, k) ==
            [res |-> IF k.res.ok THEN Ok(0) ELSE k.res,
             mux |-> g.mux, block_readers |-> k.block_readers,
             reader |-> [mr EXCEPT !.inner = k.inner],
             created |-> g.created, hdrs |-> g.hdrs, made |-> g.made]
        Got(g) ==
            IF ~g.res.ok
            THEN [res |-> g.res, mux |-> g.mux, block_readers |-> g.block_readers,
                  reader |-> mr,
                  created |-> g.created, hdrs |-> g.hdrs, made |-> g.made]
            ELSE Sought(g, MetadataBlockReaderSeek(g.block_readers, g.reader,
                                                   SeekFrom("Current", addr.offset)))
    IN  IF mr.section_start + addr.location # mr.inner.block_addr
        THEN Got(GetBlockReader(disk, mux, comp, brs, mr.section_start + addr.location))
        ELSE Got([res |-> Ok(0), mux |-> mux, block_readers |-> brs,
                  reader |-> mr.inner, created |-> 0, hdrs |-> 0, made |-> 0])

\* MetadataReader::seek_ref(addr)
MetadataReaderSeekRef(disk, mux, comp, brs, mr, addr) ==
    LET Sought(g, k) ==
            [res |-> IF k.res.ok THEN Ok(0) ELSE k.res,
             mux |-> g.mux, block_readers |-> k.block_readers,
             reader |-> [mr EXCEPT !.inner = k.inner],
             created |-> g.created, hdrs |-> g.hdrs, made |-> g.made]
        Got(g) ==
            IF ~g.res.ok
            THEN [res |-> g.res, mux |-> g.mux, block_readers |-> g.block_readers,
                  reader |-> mr,
                  created |-> g.created, hdrs |-> g.hdrs, made |-> g.made]
            ELSE Sought(g, MetadataBlockReaderSeek(g.block_readers, g.reader,
                                                   SeekFrom("Start", addr.offset)))
    IN  IF mr.section_start + addr.location # mr.inner.block_addr
        THEN Got(GetBlockReader(disk, mux, comp, brs, mr.section_start + addr.location))
        ELSE Got([res |-> Ok(0), mux |-> mux, block_readers |-> brs,
                  reader |-> mr.inner, created |-> 0, hdrs |-> 0, made |-> 0])

\* <MetadataReader as Read>::read with a buffer of n bytes
MetadataReaderRead(disk, mux, comp, brs, mr, n) ==
    LET done == mr.section_end.some /\ mr.section_end.val <= NextBlockAddr(mr.inner)
        Second(r1, g, r2) ==
            [res |-> r2.res, mux |-> r2.mux, block_readers |-> r2.block_readers,
             reader |-> [mr EXCEPT !.inner = r2.inner],
             created |-> g.created, hdrs |-> g.hdrs,
             made |-> r1.made, made_next |-> g.made + r2.made]
        Moved(r1, g) ==
            IF ~g.res.ok
            THEN [res |-> g.res, mux |-> g.mux, block_readers |-> g.block_readers,
                  reader |-> [mr EXCEPT !.inner = r1.inner],
                  created |-> g.created, hdrs |-> g.hdrs,
                  made |-> r1.made, made_next |-> g.made]
            ELSE Second(r1, g, MetadataBlockReaderRead(disk, g.mux, g.block_readers,
                                                       g.reader, n))
        First(r1) ==
            IF ~r1.res.ok \/ Len(r1.res.val) # 0 \/ n = 0 \/ done
            THEN [res |-> r1.res, mux |-> r1.mux, block_readers |-> r1.block_readers,
                  reader |-> [mr EXCEPT !.inner = r1.inner],
                  created |-> 0, hdrs |-> 0, made |-> r1.made, made_next |-> 0]
            ELSE Moved(r1, GetBlockReader(disk, r1.mux, comp, r1.block_readers,
                                          NextBlockAddr(mr.inner)))
    IN  First(MetadataBlockReaderRead(disk, mux, brs, mr.inner, n))

\* <MetadataReader as Seek>::seek
MetadataReaderSeek(brs, mr, from) ==
    LET Done(k) ==
            [res |-> k.res, block_readers |-> k.block_readers,
             reader |-> [mr EXCEPT !.inner = k.inner]]
    IN  Done(MetadataBlockReaderSeek(brs, mr.inner, from))

MetaBufLens == {1, MetaLen}

MetaSeekArgs ==
    {SeekFrom("Start", 0), SeekFrom("Current", 1), SeekFrom("Current", -1),
     SeekFrom("End", 0)}

\* MetadataBlockCache::new over a metadata section
MetaCacheNew(comp, stor) ==
    \E img \in {MetaImage(stor)} :
        /\ cImg = img
        /\ compressor = comp
        /\ cMux = NewCacheMux
        /\ block_readers = <<>>
        /\ readers = <<NotOpen>>
        /\ decoders = [a \in DOMAIN img.blocks |-> 0]
        /\ headers = [a \in DOMAIN img.blocks |-> 0]
        /\ produced = [a \in DOMAIN img.blocks |-> 0]
        /\ cLast = CacheNoOp

MetaInit ==
    /\ \E comp \in MetaCompressors, stor \in MetaStorages : MetaCacheNew(comp, stor)
    /\ MuxIdle /\ FileIdle /\ MdIdle /\ FsIdle

\* what keeps the state space finite: the clients a block reader has
\* handed out
MetaWithin(brs) ==
    \A a \in DOMAIN brs : brs[a].inner.next_client_id <= MaxBlockClients + 1

\* the count f with d more at address a
Add(f, a, d) == IF a \in DOMAIN f THEN [f EXCEPT ![a] = @ + d] ELSE f

\* the history after an operation that used the block at address a
MetaCount(r, a) ==
    /\ decoders' = Add(decoders, a, r.created)
    /\ headers' = Add(headers, a, r.hdrs)
    /\ produced' = Add(produced, a, r.made)

\* MetadataReader::new; the reader that was there before is dropped
MetaNew(i, section_end, ref) ==
    LET Done(r) ==
            /\ MetaWithin(r.block_readers)
            /\ cMux' = r.mux
            /\ block_readers' = r.block_readers
            /\ readers' = [readers EXCEPT ![i] = r.reader]
            /\ MetaCount(r, cImg.section_start + ref.location)
            /\ cLast' = [op |-> "new", i |-> i, res |-> r.res]
    IN  /\ Done(MetadataReaderNew(cImg.disk, cMux, compressor, block_readers,
                                  cImg.section_start, section_end, ref))
        /\ UNCHANGED <<cImg, compressor, notCache>>

\* seek_ref on the i-th reader
MetaSeekRef(i, ref) ==
    LET Done(r) ==
            /\ MetaWithin(r.block_readers)
            /\ cMux' = r.mux
            /\ block_readers' = r.block_readers
            /\ readers' = [readers EXCEPT ![i] = r.reader]
            /\ MetaCount(r, cImg.section_start + ref.location)
            /\ cLast' = [op |-> "seek_ref", i |-> i, res |-> r.res]
    IN  /\ readers[i] # NotOpen
        /\ Done(MetadataReaderSeekRef(cImg.disk, cMux, compressor, block_readers,
                                      readers[i], ref))
        /\ UNCHANGED <<cImg, compressor, notCache>>

\* a read on the i-th reader; a block it moves on to is the next one
MetaRead(i, n) ==
    LET Done(r, cur, next) ==
            /\ MetaWithin(r.block_readers)
            /\ cMux' = r.mux
            /\ block_readers' = r.block_readers
            /\ readers' = [readers EXCEPT ![i] = r.reader]
            /\ decoders' = Add(decoders, next, r.created)
            /\ headers' = Add(headers, next, r.hdrs)
            /\ produced' = Add(Add(produced, cur, r.made), next, r.made_next)
            /\ cLast' = [op |-> "read", i |-> i, res |-> r.res]
    IN  /\ readers[i] # NotOpen
        /\ Done(MetadataReaderRead(cImg.disk, cMux, compressor, block_readers,
                                   readers[i], n),
                readers[i].inner.block_addr, NextBlockAddr(readers[i].inner))
        /\ UNCHANGED <<cImg, compressor, notCache>>

\* a seek on the i-th reader
MetaSeek(i, from) ==
    LET Done(r) ==
            /\ r.reader.inner.inner.pos <= MetaLen + 1
            /\ block_readers' = r.block_readers
            /\ readers' = [readers EXCEPT ![i] = r.reader]
            /\ cLast' = [op |-> "seek", i |-> i, res |-> r.res]
    IN  /\ readers[i] # NotOpen
        /\ Done(MetadataReaderSeek(block_readers, readers[i], from))
        /\ UNCHANGED <<cImg, compressor, cMux, decoders, headers, produced, notCache>>

MetaNext ==
    \/ \E i \in DOMAIN readers, ref \in cImg.refs :
          MetaNew(i, Some(cImg.section_end), ref)
    \/ \E i \in DOMAIN readers, ref \in cImg.refs : MetaSeekRef(i, ref)
    \/ \E i \in DOMAIN readers, n \in MetaBufLens : MetaRead(i, n)
    \/ \E i \in DOMAIN readers, from \in MetaSeekArgs : MetaSeek(i, from)

\* a metadata block cache and its readers under arbitrary interleavings
SpecMeta == MetaInit /\ [][MetaNext]_vars

(***************************************************************************)
(* Claims on the metadata block cache                                      *)
(***************************************************************************)
\* C8: over any sequence of MetadataReader::new, seek_ref, read and seek on
\* the readers of one cache, the header of a metadata block that has a
\* block reader has been read once and one decoder has been constructed
\* for it (none for a block without a block reader), the decoder's client
\* has not gone past the end of the stored block, the decoder has put out
\* no more bytes than the block decodes to, the cached bytes are a prefix
\* of the decoded block, and a read returns the decoded bytes of its
\* reader's block from the reader's position on.
C8_MetadataBlockReadOnce ==
    /\ \A a \in DOMAIN cImg.blocks :
          /\ headers[a] = (IF a \in DOMAIN block_readers THEN 1 ELSE 0)
          /\ decoders[a] = (IF a \in DOMAIN block_readers THEN 1 ELSE 0)
          /\ produced[a] <= Len(cImg.blocks[a].data)
          /\ a \in DOMAIN block_readers =>
                /\ block_readers[a].inner.cache =
                       SubSeq(cImg.blocks[a].data, 1, Len(block_readers[a].inner.cache))
                /\ block_readers[a].inner.dec.client.pos <= a + 2 + cImg.blocks[a].size
                /\ block_readers[a].block_size = cImg.blocks[a].size
    /\ (cLast.op = "read" /\ readers[cLast.i] # NotOpen) =>
          /\ cLast.res.ok
          /\ cLast.res.val =
                SubSeq(cImg.blocks[readers[cLast.i].inner.block_addr].data,
                       readers[cLast.i].inner.inner.pos - Len(cLast.res.val) + 1,
                       readers[cLast.i].inner.inner.pos)

\* the second client of a block reader has read the first byte of a block
\* that the first client had decoded to its end: the byte came from the
\* cache, the header has been read once and the block decoded once
C8_Witness ==
    /\ cLast.op = "read" /\ cLast.res.ok /\ Len(cLast.res.val) = 1
    /\ readers[cLast.i] # NotOpen
    /\ readers[cLast.i].inner.inner.id = 2
    /\ readers[cLast.i].inner.inner.pos = 1
    /\ Len(block_readers[readers[cLast.i].inner.block_addr].inner.cache) = MetaLen
    /\ headers[readers[cLast.i].inner.block_addr] = 1
    /\ decoders[readers[cLast.i].inner.block_addr] = 1
    /\ produced[readers[cLast.i].inner.block_addr] = MetaLen

(***************************************************************************)
(* Claims on the walk of a metadata reader along the blocks of a section   *)
(***************************************************************************)
\* the ends a section is given: behind its first block, or behind its last
MetaSectionEnds ==
    {Some(a) : a \in (DOMAIN cImg.blocks \ {cImg.section_start})
                     \cup {cImg.section_end}}

MetaWalkNext ==
    \/ \E i \in DOMAIN readers, e \in MetaSectionEnds, ref \in cImg.refs :
          MetaNew(i, e, ref)
    \/ \E i \in DOMAIN readers, n \in MetaBufLens : MetaRead(i, n)

\* metadata readers that are only read, over sections of one or two blocks
SpecMetaWalk == MetaInit /\ [][MetaWalkNext]_vars

\* C11: a read on a metadata reader returns the decoded bytes of its block
\* from its position on while there are any; at the end of the block, with
\* the next block address (the block address + 2 + the on-disk length of
\* the block) still before section_end, it moves to the block at that
\* address and returns that block's decoded bytes from its start; with the
\* next block address at or behind section_end it returns no bytes, stays
\* on its block, and no header is read and no block reader is made.
C11_WalkByOnDiskSize ==
    [][cLast'.op = "read" =>
         LET mr == readers[cLast'.i]
             a == mr.inner.block_addr
             p == mr.inner.inner.pos
             next == a + 2 + cImg.blocks[a].size
             k == Len(cLast'.res.val)
             to == readers'[cLast'.i].inner.block_addr
         IN  /\ cLast'.res.ok
             /\ IF p < Len(cImg.blocks[a].data)
                THEN /\ to = a
                     /\ k >= 1
                     /\ cLast'.res.val = SubSeq(cImg.blocks[a].data, p + 1, p + k)
                ELSE IF mr.section_end.val <= next
                THEN /\ to = a
                     /\ k = 0
                     /\ headers' = headers /\ decoders' = decoders
                     /\ DOMAIN block_readers' = DOMAIN block_readers
                ELSE /\ to = next
                     /\ next \in DOMAIN cImg.blocks
                     /\ k >= 1
                     /\ cLast'.res.val = SubSeq(cImg.blocks[next].data, 1, k)]_vars

\* a reader has moved on from the first block of the section, stored
\* compressed with an on-disk length that is not its decoded length, and
\* has read the start of the second block
C11_Witness ==
    /\ cLast.op = "read" /\ cLast.res.ok /\ Len(cLast.res.val) >= 1
    /\ readers[cLast.i] # NotOpen
    /\ readers[cLast.i].inner.block_addr # cImg.section_start
    /\ readers[cLast.i].inner.inner.pos = Len(cLast.res.val)
    /\ cImg.blocks[cImg.section_start].size # Len(cImg.blocks[cImg.section_start].data)
    /\ readers[cLast.i].inner.block_addr
          = cImg.section_start + 2 + cImg.blocks[cImg.section_start].size

(***************************************************************************)
(* Claims on the entry references of a metadata reader                     *)
(***************************************************************************)
\* the client a block reader mux hands out next for the block at address t
NextClientOf(brs, t) ==
    IF t \in DOMAIN brs THEN brs[t].inner.next_client_id ELSE 1

\* the reader r is at the reference ref of the section
AtRef(r, ref) ==
    /\ r # NotOpen
    /\ r.inner.block_addr = cImg.section_start + ref.location
    /\ r.inner.inner.pos = ref.offset

\* C12: MetadataReader::new and seek_ref with a reference leave the reader
\* on the block at section_start + location at the position offset,
\* whatever the reader did before; seek_ref keeps its client when the block
\* is the one it is on and otherwise takes a new client of the target
\* block's reader; the read that follows returns the decoded bytes of that
\* block from that position on.
C12_RefSetsBlockAndOffset ==
    [][/\ \A i \in DOMAIN readers, ref \in cImg.refs :
             (cLast'.op = "new" /\ MetaNew(i, Some(cImg.section_end), ref)) =>
                 /\ cLast'.res.ok
                 /\ AtRef(readers'[i], ref)
                 /\ readers'[i].inner.inner.id =
                        NextClientOf(block_readers, cImg.section_start + ref.location)
       /\ \A i \in DOMAIN readers, ref \in cImg.refs :
             (cLast'.op = "seek_ref" /\ MetaSeekRef(i, ref)) =>
                 /\ cLast'.res.ok
                 /\ AtRef(readers'[i], ref)
                 /\ IF cImg.section_start + ref.location = readers[i].inner.block_addr
                    THEN /\ readers'[i].inner.inner.id = readers[i].inner.inner.id
                         /\ NextClientOf(block_readers', readers[i].inner.block_addr)
                               = NextClientOf(block_readers, readers[i].inner.block_addr)
                    ELSE /\ readers'[i].inner.inner.id =
                               NextClientOf(block_readers,
                                            cImg.section_start + ref.location)
                         /\ NextClientOf(block_readers',
                                         cImg.section_start + ref.location)
                               = readers'[i].inner.inner.id + 1
       /\ (cLast.op \in {"new", "seek_ref"} /\ cLast'.op = "read") =>
             LET mr == readers[cLast'.i]
                 data == cImg.blocks[mr.inner.block_addr].data
                 p == mr.inner.inner.pos
                 k == Len(cLast'.res.val)
             IN  /\ cLast'.res.ok
                 /\ p < Len(data) =>
                       /\ k >= 1
                       /\ cLast'.res.val = SubSeq(data, p + 1, p + k)]_vars

\* seek_ref has moved a reader to the offset 1 of the second block of the
\* section, a block that had been read to its end before and whose reader
\* had handed out a client before
C12_Witness ==
    /\ cLast.op = "seek_ref" /\ cLast.res.ok
    /\ readers[cLast.i] # NotOpen
    /\ readers[cLast.i].inner.block_addr # cImg.section_start
    /\ readers[cLast.i].inner.inner.pos = 1
    /\ readers[cLast.i].inner.inner.id >= 2
    /\ Len(block_readers[readers[cLast.i].inner.block_addr].inner.cache) = MetaLen

(***************************************************************************)
(* Claims on the header of a metadata block                                *)
(***************************************************************************)
\* how often a block reader is asked for
MaxOpens == 2

\* the lengths a header is given: around 0, around the metadata block size
\* and the largest a header can hold
HeaderSizes ==
    {0, 1, 2, 3, MetadataBlockSize - 1, MetadataBlockSize, MetadataBlockSize + 1,
     MetaSizeMask}

\* the header words: a length, with the high bit clear or set
HeaderWords ==
    {size + flag : size \in HeaderSizes, flag \in {0, MetaUncompressedFlag}}

\* the two bytes behind every header: one pair of a compressed stream
HeaderPayload == <<61, 1>>

\* a section of one block whose header is the word h
HeaderImage(h) ==
    [disk |-> [i \in 1..MetaStart |-> 255] \o U16LE(h) \o HeaderPayload,
     blocks |-> (MetaStart :> [size |-> h % (MetaSizeMask + 1), data |-> <<>>]),
     section_start |-> MetaStart,
     section_end |-> MetaStart + 2 + Len(HeaderPayload),
     refs |-> {[location |-> 0, offset |-> 0]},
     header |-> h]

\* MetadataBlockCache::new over a section with the header h
HeaderCacheNew(comp, h) ==
    \E img \in {HeaderImage(h)} :
        /\ cImg = img
        /\ compressor = comp
        /\ cMux = NewCacheMux
        /\ block_readers = <<>>
        /\ readers = <<NotOpen>>
        /\ decoders = [a \in DOMAIN img.blocks |-> 0]
        /\ headers = [a \in DOMAIN img.blocks |-> 0]
        /\ produced = [a \in DOMAIN img.blocks |-> 0]
        /\ cLast = CacheNoOp

HeaderInit ==
    /\ \E comp \in MetaCompressors, h \in HeaderWords : HeaderCacheNew(comp, h)
    /\ MuxIdle /\ FileIdle /\ MdIdle /\ FsIdle

\* MetadataReader::new at the start of the block
HeaderOpen ==
    /\ cMux.next_client_id <= MaxOpens
    /\ MetaNew(1, Some(cImg.section_end), [location |-> 0, offset |-> 0])

HeaderNext == HeaderOpen

\* metadata readers opened on a block with an arbitrary header
SpecHeader == HeaderInit /\ [][HeaderNext]_vars

\* C13: when a metadata block reader has been asked for, a header whose
\* low 15 bits exceed 8192 has been rejected with InvalidData, nothing
\* behind the header has been read and the block has no block reader; a
\* header whose low 15 bits are at most 8192 (8192 included) is rejected
\* only where the bytes behind it do not decode, and its block reader has
\* the low 15 bits as its on-disk length and decodes iff the high bit is
\* clear.
C13_HeaderDecode ==
    cMux.next_client_id > 1 =>
        LET size == cImg.header % 32768
            compressed == cImg.header < 32768
            a == cImg.section_start
        IN  IF size > 8192
            THEN /\ cLast.res = Err("InvalidData")
                 /\ block_readers = <<>>
                 /\ cMux.sr.inner = a + 2
            ELSE /\ ~cLast.res.ok =>
                       /\ compressed /\ compressor \in {"Xz", "Zstd"}
                       /\ size < Len(HeaderPayload)
                 /\ cLast.res.ok =>
                       /\ a \in DOMAIN block_readers
                       /\ block_readers[a].block_size = size
                       /\ (block_readers[a].inner.dec.kind = "Uncompressed")
                             <=> ~compressed
                       /\ block_readers[a].inner.dec.limit
                             + (block_readers[a].inner.dec.client.pos - (a + 2)) = size

\* a block whose header holds the length 8192 and the high bit clear has
\* been given a block reader
C13_Witness ==
    /\ cImg.header = 8192
    /\ cLast.op = "new" /\ cLast.res.ok
    /\ cImg.section_start \in DOMAIN block_readers
    /\ block_readers[cImg.section_start].block_size = 8192

(***************************************************************************)
(* Claims on metadata blocks that fail to decode                           *)
(***************************************************************************)
\* the stored bytes of a block of a compressed stream: one that decodes,
\* one that breaks off inside its second pair, one that breaks off inside
\* its first pair
BadPayloads == {<<61, 1, 67, 1>>, <<61, 1, 67>>, <<61>>}

\* a section of one block stored compressed with the bytes payload
BadImage(payload) ==
    [disk |-> [i \in 1..MetaStart |-> 255] \o U16LE(Len(payload)) \o payload,
     blocks |-> (MetaStart :> [size |-> Len(payload),
                               data |-> IF StreamOk(payload) THEN Decode(payload)
                                        ELSE <<>>]),
     section_start |-> MetaStart,
     section_end |-> MetaStart + 2 + Len(payload),
     refs |-> {[location |-> 0, offset |-> 0], [location |-> 0, offset |-> 1]},
     decodes |-> StreamOk(payload)]

\* MetadataBlockCache::new over a section whose block may not decode
BadCacheNew(comp, payload) ==
    \E img \in {BadImage(payload)} :
        /\ cImg = img
        /\ compressor = comp
        /\ cMux = NewCacheMux
        /\ block_readers = <<>>
        /\ readers = <<NotOpen>>
        /\ decoders = [a \in DOMAIN img.blocks |-> 0]
        /\ headers = [a \in DOMAIN img.blocks |-> 0]
        /\ produced = [a \in DOMAIN img.blocks |-> 0]
        /\ cLast = CacheNoOp

BadInit ==
    /\ \E comp \in MetaCompressors, payload \in BadPayloads : BadCacheNew(comp, payload)
    /\ MuxIdle /\ FileIdle /\ MdIdle /\ FsIdle

\* no read of the block has failed: what a decoder does once it has
\* reported an error is not followed
NoReadFailed == cLast.op = "read" => cLast.res.ok

\* MetadataReader::new on the block
BadOpen(ref) ==
    /\ NoReadFailed
    /\ cMux.next_client_id <= MaxOpens
    /\ MetaNew(1, Some(cImg.section_end), ref)

\* a read on the reader
BadRead(n) ==
    /\ NoReadFailed
    /\ MetaRead(1, n)

\* a seek on the reader
BadSeek(from) ==
    /\ NoReadFailed
    /\ MetaSeek(1, from)

BadNext ==
    \/ \E ref \in cImg.refs : BadOpen(ref)
    \/ \E n \in MetaBufLens : BadRead(n)
    \/ \E from \in MetaSeekArgs : BadSeek(from)

\* metadata readers on a block that may fail to decode
SpecMetaBad == BadInit /\ [][BadNext]_vars

\* C14: when an operation on a metadata reader has failed, the block has
\* no block reader in the cache.
C14_FailedDecodeLeavesNoEntry ==
    ~cLast.res.ok => cImg.section_start \notin DOMAIN block_readers

(***************************************************************************)
(* Claims on the limits and the errors of a compressed block reader        *)
(***************************************************************************)
\* the decoded bytes of the fragment block: two ascending runs
OddData == <<61, 62, 71>>

\* the blocks a fragment block cache is given: one that decodes to more
\* than the uncompressed size it is declared with, one whose stream breaks
\* off inside its second pair, one whose stream breaks off inside its first
\* pair, and one that is as declared
OddVariants == {"over", "cut2", "cut1", "fine"}

\* the stored bytes of the block
OddStored(comp, v) ==
    IF comp = "None" THEN OddData
    ELSE CASE v = "cut2" -> SubSeq(Encode(OddData), 1, 3)
           [] v = "cut1" -> SubSeq(Encode(OddData), 1, 1)
           [] OTHER -> Encode(OddData)

\* a backing store with the block, and the tails of two files in it
OddImage(comp, v) ==
    [disk |-> [i \in 1..FragStart |-> 255] \o OddStored(comp, v),
     blocks |-> (FragStart :>
                    [size |-> Len(OddStored(comp, v)),
                     usize |-> IF v = "over" THEN Len(OddData) - 1 ELSE Len(OddData),
                     data |-> OddData]),
     files |-> <<[addr |-> FragStart, offset |-> 0, len |-> Len(OddData)],
                 [addr |-> FragStart, offset |-> 1, len |-> 1]>>]

\* FragmentBlockCache::new over the block
OddNew(comp, v) ==
    \E img \in {OddImage(comp, v)} :
        /\ cImg = img
        /\ compressor = comp
        /\ cMux = NewCacheMux
        /\ block_readers = <<>>
        /\ readers = [f \in DOMAIN img.files |-> NotOpen]
        /\ decoders = [a \in DOMAIN img.blocks |-> 0]
        /\ headers = [a \in DOMAIN img.blocks |-> 0]
        /\ produced = [a \in DOMAIN img.blocks |-> 0]
        /\ cLast = CacheNoOp

OddInit ==
    /\ \E comp \in FragCompressors, v \in OddVariants : OddNew(comp, v)
    /\ MuxIdle /\ FileIdle /\ MdIdle /\ FsIdle

\* get_fragment_reader for the tail of the i-th file
OddGet(i) ==
    /\ NoReadFailed
    /\ cMux.next_client_id <= MaxOpens
    /\ GetFragmentReader(i)

\* a read on the fragment reader of the i-th file
OddRead(i, n) ==
    /\ NoReadFailed
    /\ FragRead(i, n)

\* a seek on the fragment reader of the i-th file
OddSeek(i, from) ==
    /\ NoReadFailed
    /\ FragSeek(i, from)

OddNext ==
    \/ \E i \in DOMAIN readers : OddGet(i)
    \/ \E i \in DOMAIN readers, n \in FragBufLens : OddRead(i, n)
    \/ \E i \in DOMAIN readers, from \in FragSeekArgs : OddSeek(i, from)

\* a fragment block cache over a block that is not as it is declared
SpecFragOdd == OddInit /\ [][OddNext]_vars

\* C15: the bytes that the compressed block reader of a block has yielded,
\* all of which its caching reader holds, are never more than the
\* uncompressed size the reader was constructed with.
C15_YieldWithinUncompressedSize ==
    \A a \in DOMAIN block_readers :
        Len(block_readers[a].cache) <= cImg.blocks[a].usize

\* C16: an operation that fails, fails with the error kind InvalidData.
C16_FailuresAreInvalidData ==
    (~cLast.res.ok /\ cLast.res # Panic) => cLast.res = Err("InvalidData")

(***************************************************************************)
(* metadata.rs: EntryReference, a 64-bit word holding a block location in  *)
(* its upper 48 bits and an offset into the block in its lower 16 bits.    *)
(* A u64 is held as four 16-bit limbs, least significant first.            *)
(***************************************************************************)
RefShift == 16

OffsetMask == 65535

RECURSIVE BitOr(_, _)
BitOr(a, b) ==
    IF a = 0 THEN b
    ELSE IF b = 0 THEN a
    ELSE (IF a % 2 = 1 \/ b % 2 = 1 THEN 1 ELSE 0) + 2 * BitOr(a \div 2, b \div 2)

RECURSIVE BitAnd(_, _)
BitAnd(a, b) ==
    IF a = 0 \/ b = 0 THEN 0
    ELSE (IF a % 2 = 1 /\ b % 2 = 1 THEN 1 ELSE 0) + 2 * BitAnd(a \div 2, b \div 2)

\* u64::from(x) of a u16
U64From(x) == <<x, 0, 0, 0>>

\* v << 16 of a u64: the bits shifted past bit 63 are dropped
Shl64(v) == <<0, v[1], v[2], v[3]>>

\* v >> 16 of a u64
Shr64(v) == <<v[2], v[3], v[4], 0>>

Or64(a, b) == [i \in 1..4 |-> BitOr(a[i], b[i])]

And64(a, b) == [i \in 1..4 |-> BitAnd(a[i], b[i])]

\* (v as u16) of a u64
AsU16(v) == v[1]

EntryReferenceNew(location, offset) ==
    [val |-> Or64(Shl64(location), U64From(offset))]

EntryReferenceLocation(e) == Shr64(e.val)

\* a variant that keeps only the low byte
EntryReferenceOffsetByte(e) == AsU16(And64(e.val, U64From(OffsetMask \div 256)))

EntryReferenceOffset(e) == AsU16(And64(e.val, U64From(OffsetMask)))

\* the values a limb of the location takes
LimbValues == {0, 1, 2 ^ (RefShift - 1), OffsetMask}

\* the offsets
OffsetValues == {0, 1, 4660, OffsetMask}

RefInit ==
    /\ \E l0, l1, l2, l3 \in LimbValues : \E off \in OffsetValues :
           call = [op |-> "args", location |-> <<l0, l1, l2, l3>>, offset |-> off]
    /\ readDir = <<>> /\ yielded = <<>>
    /\ MuxIdle /\ FileIdle /\ CacheIdle /\ FsIdle

\* EntryReference::new(location, offset)
RefNew ==
    /\ call.op = "args"
    /\ call' = [op |-> "new", location |-> call.location, offset |-> call.offset,
                ref |-> EntryReferenceNew(call.location, call.offset)]
    /\ UNCHANGED <<readDir, yielded, notMd>>

\* ref.location() and ref.offset()
RefGet ==
    /\ call.op = "new"
    /\ call' = [op |-> "got", location |-> call.location, offset |-> call.offset,
                ref |-> call.ref,
                got_location |-> EntryReferenceLocation(call.ref),
                got_offset |-> EntryReferenceOffset(call.ref)]
    /\ UNCHANGED <<readDir, yielded, notMd>>

RefNext == RefNew \/ RefGet

SpecRef == RefInit /\ [][RefNext]_vars

\* C17: a reference built from a location below 2^48 and an offset gives back
\* that location and that offset.
C17_EntryReferenceRoundTrip ==
    (call.op = "got" /\ call.location[4] = 0) =>
        /\ call.got_location = call.location
        /\ call.got_offset = call.offset

\* the largest location below 2^48 with the largest offset has made the round trip
C17_Witness ==
    /\ call.op = "got"
    /\ call.location = <<OffsetMask, OffsetMask, OffsetMask, 0>>
    /\ call.offset = OffsetMask
    /\ call.ref.val = <<OffsetMask, OffsetMask, OffsetMask, OffsetMask>>

(***************************************************************************)
(* metadata.rs: Inode::mode, the st_mode word of an inode: its stored      *)
(* permissions with the file type bits of its inode type.                  *)
(***************************************************************************)
InodeTypeNames ==
    <<"BasicDir", "BasicFile", "BasicSymlink", "BasicBlockDev", "BasicCharDev",
      "BasicNamedPipe", "BasicSocked", "ExtDir", "ExtFile", "ExtSymlink",
      "ExtBlockDev", "ExtCharDev", "ExtNamedPipe", "ExtSocked">>

\* InodeType::from(tag): a tag outside the 14 known ones is Unknown
InodeTypeFrom(tag) ==
    IF tag \in DOMAIN InodeTypeNames THEN InodeTypeNames[tag] ELSE "Unknown"

\* the match of Inode::mode, in octal 060000, 020000, 040000, 0100000, 010000,
\* 0140000, 0120000
ModeTypeBits(inode_type) ==
    CASE inode_type \in {"BasicBlockDev", "ExtBlockDev"} -> 24576
      [] inode_type \in {"BasicCharDev", "ExtCharDev"} -> 8192
      [] inode_type \in {"BasicDir", "ExtDir"} -> 16384
      [] inode_type \in {"BasicFile", "ExtFile"} -> 32768
      [] inode_type \in {"BasicNamedPipe", "ExtNamedPipe"} -> 4096
      [] inode_type \in {"BasicSocked", "ExtSocked"} -> 49152
      [] inode_type \in {"BasicSymlink", "ExtSymlink"} -> 40960
      [] OTHER -> 0

InodeMode(inode) == BitOr(inode.permissions, ModeTypeBits(inode.inode_type))

\* the tags read from the image: the known ones, and some that are not
InodeTags == 0 .. 15 \cup {OffsetMask}

\* the permission words read from the image, in octal 0, 0644, 0755, 07777, 010000,
\* 040755, 0100644, 0170000, 0177777
PermissionWords == {0, 420, 493, 4095, 4096, 16877, 33188, 61440, OffsetMask}

ModeInit ==
    /\ \E tag \in InodeTags : \E perm \in PermissionWords :
           call = [op |-> "inode", inode_type |-> InodeTypeFrom(tag), permissions |-> perm]
    /\ readDir = <<>> /\ yielded = <<>>
    /\ MuxIdle /\ FileIdle /\ CacheIdle /\ FsIdle

\* inode.mode()
ModeCall ==
    /\ call.op = "inode"
    /\ call' = [op |-> "mode", inode_type |-> call.inode_type,
                permissions |-> call.permissions, mode |-> InodeMode(call)]
    /\ UNCHANGED <<readDir, yielded, notMd>>

ModeNext == ModeCall

SpecMode == ModeInit /\ [][ModeNext]_vars

\* C18: for an inode of a known type, the file type field of mode() (the bits of
\* octal 0170000) is the type bits of the inode's kind, and its permission field
\* (the bits of octal 07777) is the permission field of the stored word.
C18_ModeSplitsTypeAndPermissions ==
    LET kind == [t \in {"Dir", "File", "Symlink", "BlockDev", "CharDev", "NamedPipe",
                        "Socked"} |->
                    CASE t = "NamedPipe" -> 4096 [] t = "CharDev" -> 8192
                      [] t = "Dir" -> 16384 [] t = "BlockDev" -> 24576
                      [] t = "File" -> 32768 [] t = "Symlink" -> 40960
                      [] t = "Socked" -> 49152]
        name == call.inode_type
        Known(n) == \E t \in DOMAIN kind : n \in {"Basic" \o t, "Ext" \o t}
        Bits(n) == kind[CHOOSE t \in DOMAIN kind : n \in {"Basic" \o t, "Ext" \o t}]
    IN  (call.op = "mode" /\ Known(name)) =>
            /\ BitAnd(call.mode, 61440) = Bits(name)
            /\ BitAnd(call.mode, 4095) = BitAnd(call.permissions, 4095)

(***************************************************************************)
(* metadata.rs: Inode::read of a BasicFile inode: the number of block size *)
(* words that follow the fixed fields.  A u32 is held as two 16-bit limbs, *)
(* [hi, lo]; u32 arithmetic either traps on overflow (overflow checks on,  *)
(* the default of a debug build) or wraps (checks off, the default of a    *)
(* release build).                                                         *)
(***************************************************************************)
Half == 2 ^ 16

U32(hi, lo) == [hi |-> hi, lo |-> lo]

\* an integer below 2^31 as a u32
ToU32(n) == U32(n \div Half, n % Half)

U32MAX == U32(Half - 1, Half - 1)

\* a + b in u32
U32Add(a, b, checked) ==
    LET Sum(lo, hi) ==
            IF hi >= Half /\ checked THEN Panic
            ELSE Ok(U32(hi % Half, lo % Half))
        Carry(lo) == Sum(lo, a.hi + b.hi + lo \div Half)
    IN  Carry(a.lo + b.lo)

\* a - 1 in u32
U32Sub1(a, checked) ==
    IF a.lo > 0 THEN Ok(U32(a.hi, a.lo - 1))
    ELSE IF a.hi > 0 THEN Ok(U32(a.hi - 1, Half - 1))
    ELSE IF checked THEN Panic
    ELSE Ok(U32MAX)

\* the base-256 digits of a u32, most significant first
Digits(a) == <<a.hi \div 256, a.hi % 256, a.lo \div 256, a.lo % 256>>

\* a / d and a % d in u32 by long division, for a divisor d that is an Int
RECURSIVE LongDiv(_, _, _, _)
LongDiv(ds, d, q, r) ==
    IF ds = <<>> THEN [q |-> q, r |-> r]
    ELSE LongDiv(Tail(ds), d, q * 256 + (r * 256 + Head(ds)) \div d,
                 (r * 256 + Head(ds)) % d)

U32Div(a, d) == LongDiv(Digits(a), d, 0, 0).q

U32Rem(a, d) == LongDiv(Digits(a), d, 0, 0).r

\* div_ceil!(x, y): ($x + $y - 1) / $y
DivCeil(x, y, checked) ==
    LET Quot(t) == IF t.ok THEN Ok(U32Div(t.val, y)) ELSE Panic
        Minus(t) == IF t.ok THEN Quot(U32Sub1(t.val, checked)) ELSE Panic
    IN  Minus(U32Add(x, ToU32(y), checked))

\* the BasicFile arm of Inode::read up to num_blocks
NumBlocks(file_size, frag_index, block_size, checked) ==
    IF frag_index = U32MAX THEN DivCeil(file_size, block_size, checked)
    ELSE Ok(U32Div(file_size, block_size))

\* the block sizes a superblock may carry: the powers of two from 4 KiB to 1 MiB
BlockSizes == {2 ^ b : b \in 12 .. 20}

FileSizes ==
    {U32(hi, lo) : hi \in {0, 1, 32767, 65519, Half - 1},
                   lo \in {0, 1, 4095, 4096, 4097, 61440, 61441, Half - 1}}

FragIndexes == {U32(0, 0), U32MAX}

NumBlocksInit ==
    /\ \E fs \in FileSizes, bs \in BlockSizes, fi \in FragIndexes :
           call = [op |-> "inode", file_size |-> fs, block_size |-> bs, frag_index |-> fi]
    /\ readDir = <<>> /\ yielded = <<>>
    /\ MuxIdle /\ FileIdle /\ CacheIdle /\ FsIdle

\* Inode::read(r, block_size) of a BasicFile inode, over a reader that holds all the
\* words asked of it: res.val is the number of block size words read
InodeRead ==
    /\ call.op = "inode"
    /\ \E checked \in BOOLEAN :
           call' = [op |-> "read", file_size |-> call.file_size,
                    block_size |-> call.block_size, frag_index |-> call.frag_index,
                    checked |-> checked,
                    res |-> NumBlocks(call.file_size, call.frag_index, call.block_size,
                                      checked)]
    /\ UNCHANGED <<readDir, yielded, notMd>>

NumBlocksNext == InodeRead

SpecNumBlocks == NumBlocksInit /\ [][NumBlocksNext]_vars

\* C19: decoding a File inode reads ceil(file_size / block_size) block size words
\* when frag_index is 0xFFFFFFFF and floor(file_size / block_size) otherwise, and no
\* step of the computation overflows.
C19_BlockSizeWordCount ==
    LET floor == U32Div(call.file_size, call.block_size)
        ceil == floor + (IF U32Rem(call.file_size, call.block_size) > 0 THEN 1 ELSE 0)
    IN  call.op = "read" =>
            /\ call.res.ok
            /\ call.res.val = IF call.frag_index = U32MAX THEN ceil ELSE floor

(***************************************************************************)
(* squashfs.rs: ReadDir, the iterator over the entries of a directory.  It *)
(* walks a vector of directory tables (the runs DirTable::read_for_inode   *)
(* loaded for the inode) and, inside each, the table's entries.            *)
(***************************************************************************)
MaxTables == 3

MaxEntries == 2

MaxCalls == 7

\* Option::None
None == [some |-> FALSE]

\* u64::from(x) of a u32
U64FromU32(x) == <<x.lo, x.hi, 0, 0>>

\* a.wrapping_add_signed(d) of a u32 and an i32
WrappingAddSigned(a, d) ==
    IF d >= 0 THEN U32Add(a, ToU32(d), FALSE).val
    ELSE U32Add(a, U32(Half - 1, Half + d), FALSE).val

\* a variant that builds the reference from a start of 0
DirEntryNewZeroStart(dt_start, dt_inode_num, inner) ==
    [inner |-> inner,
     inode_ref |-> EntryReferenceNew(U64From(0), inner.offset),
     inode_num |-> WrappingAddSigned(dt_inode_num, inner.inode_offset)]

\* DirEntry::new(dt_start, dt_inode_num, inner)
DirEntryNew(dt_start, dt_inode_num, inner) ==
    [inner |-> inner,
     inode_ref |-> EntryReferenceNew(dt_start, inner.offset),
     inode_num |-> WrappingAddSigned(dt_inode_num, inner.inode_offset)]

\* ReadDir::new(table_iter)
ReadDirNew(tables) ==
    [table_iter |-> tables, cur_iter |-> None, cur_start |-> U64From(0),
     cur_inode_num |-> U32(0, 0)]

\* the loop of ReadDir::next: the ReadDir after the call and what the call returns
RECURSIVE ReadDirLoop(_)
ReadDirLoop(rd) ==
    LET Entries(r) ==
            IF r.cur_iter.val # <<>>
            THEN [rd |-> [r EXCEPT !.cur_iter = Some(Tail(r.cur_iter.val))],
                  ret |-> Some(DirEntryNew(r.cur_start, r.cur_inode_num,
                                           Head(r.cur_iter.val)))]
            ELSE ReadDirLoop([r EXCEPT !.cur_iter = None, !.cur_start = U64From(0)])
        Table(t) ==
            Entries([rd EXCEPT !.table_iter = Tail(rd.table_iter),
                               !.cur_start = U64FromU32(t.start),
                               !.cur_inode_num = t.inode_number,
                               !.cur_iter = Some(t.entries)])
    IN  IF ~rd.cur_iter.some
        THEN IF rd.table_iter = <<>> THEN [rd |-> rd, ret |-> None]
             ELSE Table(Head(rd.table_iter))
        ELSE Entries(rd)

\* a variant that gives up at the end of a table instead of going on to the next
ReadDirNextNoLoop(rd) ==
    LET Entries(r) ==
            IF r.cur_iter.val # <<>>
            THEN [rd |-> [r EXCEPT !.cur_iter = Some(Tail(r.cur_iter.val))],
                  ret |-> Some(DirEntryNew(r.cur_start, r.cur_inode_num,
                                           Head(r.cur_iter.val)))]
            ELSE [rd |-> [r EXCEPT !.cur_iter = None, !.cur_start = U64From(0)],
                  ret |-> None]
        Table(t) ==
            Entries([rd EXCEPT !.table_iter = Tail(rd.table_iter),
                               !.cur_start = U64FromU32(t.start),
                               !.cur_inode_num = t.inode_number,
                               !.cur_iter = Some(t.entries)])
    IN  IF ~rd.cur_iter.some
        THEN IF rd.table_iter = <<>> THEN [rd |-> rd, ret |-> None]
             ELSE Table(Head(rd.table_iter))
        ELSE Entries(rd)

\* ReadDir::next
ReadDirNext(rd) == ReadDirLoop(rd)

\* entry j of table k, as DirTable::load decodes it
DirEntryOf(k, j) ==
    [offset |-> 32 * j + k,
     inode_offset |-> (3 - 2 * j) * (IF k = 2 THEN 16384 ELSE 1),
     name |-> <<k, j>>]

\* table k with n entries
DirTableOf(k, n) ==
    [start |-> U32(k - 1, 4096 * k),
     inode_number |-> IF k = 3 THEN U32MAX ELSE U32(k - 1, k - 1),
     entries |-> [j \in 1 .. n |-> DirEntryOf(k, j)]]

\* the vectors of tables of a directory inode: up to MaxTables tables of up to
\* MaxEntries entries each
DirTables ==
    UNION {{[k \in 1 .. n |-> DirTableOf(k, c[k])] : c \in [1 .. n -> 0 .. MaxEntries]} :
           n \in 0 .. MaxTables}

\* read_dir_inode: the tables of the inode, and a ReadDir over them
ReadDirInit ==
    /\ \E ts \in DirTables :
           /\ call = [op |-> "read_dir", tables |-> ts]
           /\ readDir = ReadDirNew(ts)
    /\ yielded = <<>>
    /\ MuxIdle /\ FileIdle /\ CacheIdle /\ FsIdle

\* read_dir.next()
ReadDirStep ==
    /\ Len(yielded) < MaxCalls
    /\ \E r \in {ReadDirNext(readDir)} :
           /\ readDir' = r.rd
           /\ yielded' = Append(yielded, r.ret)
    /\ UNCHANGED <<call, notMd>>

ReadDirStepNext == ReadDirStep

SpecReadDir == ReadDirInit /\ [][ReadDirStepNext]_vars

\* C20: the calls of next() return, in order, one DirEntry for each entry of each
\* table of the inode (tables in order, the entries of a table in order), each once,
\* and every call after those returns None.
C20_ReadDirYieldsEveryEntryInOrder ==
    LET ts == call.tables
        all[k \in 0 .. Len(ts)] ==
            IF k = 0 THEN <<>>
            ELSE all[k - 1] \o
                 [j \in 1 .. Len(ts[k].entries) |->
                     [inner |-> ts[k].entries[j],
                      inode_ref |-> EntryReferenceNew(U64FromU32(ts[k].start),
                                                      ts[k].entries[j].offset),
                      inode_num |-> WrappingAddSigned(ts[k].inode_number,
                                                      ts[k].entries[j].inode_offset)]]
        want == all[Len(ts)]
    IN  \A i \in 1 .. Len(yielded) :
            yielded[i] = IF i <= Len(want) THEN Some(want[i]) ELSE None

\* a directory of three tables, the middle one empty, has been read to its end and
\* next() has been called twice more
C20_Witness ==
    /\ Len(call.tables) = 3
    /\ Len(call.tables[1].entries) = 2
    /\ Len(call.tables[2].entries) = 0
    /\ Len(call.tables[3].entries) = 1
    /\ Len(yielded) >= 5
    /\ yielded[3].some /\ yielded[3].val.inner.name = <<3, 1>>
    /\ yielded[4] = None /\ yielded[5] = None

\* C21: an entry that read_dir yields carries the reference made of the start of
\* its own table and its offset, and the inode number of its own table plus its
\* signed inode offset, modulo 2^32.
C21_EntryCarriesOwnTableHeader ==
    \A i \in 1 .. Len(yielded) :
        yielded[i].some =>
            LET e == yielded[i].val
                t == call.tables[e.inner.name[1]]
                s == t.inode_number.lo + e.inner.inode_offset
                num == IF s < 0 THEN U32((t.inode_number.hi - 1) % Half, s + Half)
                       ELSE IF s >= Half THEN U32((t.inode_number.hi + 1) % Half, s - Half)
                       ELSE U32(t.inode_number.hi, s)
            IN  /\ e.inode_ref.val = <<e.inner.offset, t.start.lo, t.start.hi, 0>>
                /\ e.inode_num = num

\* the first entry of a third table has been yielded after entries of the first
\* table: its inode number has wrapped from 0xFFFFFFFF to 0, and an entry of the
\* first table has wrapped from 0 to 0xFFFFFFFF
C21_Witness ==
    \E i, j \in 1 .. Len(yielded) :
        /\ i < j
        /\ yielded[i].some /\ yielded[i].val.inner.name = <<1, 2>>
        /\ yielded[i].val.inode_num = U32MAX
        /\ yielded[j].some /\ yielded[j].val.inner.name = <<3, 1>>
        /\ yielded[j].val.inode_num = U32(0, 0)
        /\ yielded[j].val.inode_ref.val = <<35, 12288, 2, 0>>

(***************************************************************************)
(* squashfs.rs: read_dir_inode and inode_from_entryref read a directory    *)
(* listing or an inode through a MetadataReader that they open at an entry *)
(* reference on the archive's metadata block cache.                        *)
(***************************************************************************)
\* what a reader opened at the reference ref on a cache that has not been used yet
\* gets from its first read with a buffer of n bytes
FreshRead(section_end, ref, n) ==
    LET Read(o) ==
            IF ~o.res.ok THEN o.res
            ELSE MetadataReaderRead(cImg.disk, o.mux, compressor, o.block_readers,
                                    o.reader, n).res
    IN  Read(MetadataReaderNew(cImg.disk, NewCacheMux, compressor, <<>>,
                               cImg.section_start, section_end, ref))

\* the entry reference of the position of the reader r
RefOf(r) ==
    [location |-> r.inner.block_addr - cImg.section_start,
     offset |-> r.inner.inner.pos]

RootRef == 1

Dir(entries) == [kind |-> "BasicDir", entries |-> entries, target |-> <<>>, fail |-> ""]

Leaf(kind) == [kind |-> kind, entries |-> <<>>, target |-> <<>>, fail |-> ""]

Symlink(kind, target) == [kind |-> kind, entries |-> <<>>, target |-> target, fail |-> ""]

Unreadable(err) == [kind |-> "BasicFile", entries |-> <<>>, target |-> <<>>, fail |-> err]

Entry(name, ref) == [name |-> name, ref |-> ref]

\* the targets of the symlink /a/link
LinkTargets ==
    {<<"file">>, <<"d">>, <<"/", "f">>, <<"..", "/", "f">>, <<"d", "/">>, <<"nope">>,
     <<"loop1">>, <<>>}

\* the errors reading the inode of /a/bad gives
ReadErrors == {"UnexpectedEof", "InvalidData"}

\* an image: / holds a, f, top, x, dev; /a holds file, link, loop1, loop2, bad, d, xl
FsImage(target, err) ==
    [inodes |->
        <<Dir(<<Entry("a", 2), Entry("f", 3), Entry("top", 4), Entry("x", 11),
                Entry("dev", 12)>>),
          Dir(<<Entry("file", 5), Entry("link", 6), Entry("loop1", 7),
                Entry("loop2", 8), Entry("bad", 9), Entry("d", 10), Entry("xl", 13)>>),
          Leaf("BasicFile"),
          Symlink("BasicSymlink", <<"/", "a">>),
          Leaf("BasicFile"),
          Symlink("BasicSymlink", target),
          Symlink("BasicSymlink", <<"loop2">>),
          Symlink("BasicSymlink", <<"loop1">>),
          Unreadable(err),
          Dir(<<>>),
          Leaf("ExtFile"),
          Leaf("BasicCharDev"),
          Symlink("ExtSymlink", <<"file">>)>>]

\* a component of a path
Comp(kind, name) == [kind |-> kind, name |-> name]

\* Path::components on the rest of a path: the next component and what is left of the
\* path behind it.  Separators are skipped, and so is "." unless it begins the path.
RECURSIVE NextComponent(_, _)
NextComponent(rest, at_start) ==
    IF rest = <<>> THEN [some |-> FALSE, rest |-> <<>>]
    ELSE IF Head(rest) = "/"
    THEN IF at_start THEN [some |-> TRUE, comp |-> Comp("RootDir", "/"), rest |-> Tail(rest)]
         ELSE NextComponent(Tail(rest), FALSE)
    ELSE IF Head(rest) = "."
    THEN IF at_start THEN [some |-> TRUE, comp |-> Comp("CurDir", "."), rest |-> Tail(rest)]
         ELSE NextComponent(Tail(rest), FALSE)
    ELSE IF Head(rest) = ".."
    THEN [some |-> TRUE, comp |-> Comp("ParentDir", ".."), rest |-> Tail(rest)]
    ELSE [some |-> TRUE, comp |-> Comp("Normal", Head(rest)), rest |-> Tail(rest)]

\* Path::components, all of them
RECURSIVE Components(_, _)
Components(path, at_start) ==
    LET Rest(c) == IF c.some THEN <<c.comp>> \o Components(c.rest, FALSE) ELSE <<>>
    IN  Rest(NextComponent(path, at_start))

\* SquashFS::inode_from_entryref, SquashFS::root_inode for RootRef: the inode, with
\* the reference it was read at
InodeFromEntryref(img, ref) ==
    IF img.inodes[ref].fail # "" THEN Err(img.inodes[ref].fail)
    ELSE Ok([ref |-> ref, kind |-> img.inodes[ref].kind,
             entries |-> img.inodes[ref].entries, target |-> img.inodes[ref].target])

\* SquashFS::read_dir_inode, collected: the entries of a directory inode
ReadDirInode(inode) ==
    IF inode.kind \in {"BasicDir", "ExtDir"} THEN Ok(inode.entries)
    ELSE Err("Unsupported")

\* Iterator::find on the entries of a directory: the first entry of that name
Find(entries, name) ==
    IF \E k \in DOMAIN entries : entries[k].name = name
    THEN Some(entries[CHOOSE k \in DOMAIN entries :
                          /\ entries[k].name = name
                          /\ \A j \in 1 .. k - 1 : entries[j].name # name])
    ELSE None

\* the loop of SquashFS::inode_from_path over the components left
RECURSIVE PathLoop(_, _, _)
PathLoop(img, inode, comps) ==
    LET Into(r) == IF r.ok THEN PathLoop(img, r.val, Tail(comps)) ELSE r
        Entered(r) ==
            IF r.ok THEN PathLoop(img, r.val, Tail(comps)) ELSE Err("NotFound")
        Found(e) ==
            IF e.some THEN Entered(InodeFromEntryref(img, e.val.ref))
            ELSE Err("NotFound")
        Listed(d, name) == IF d.ok THEN Found(Find(d.val, name)) ELSE d
    IN  IF comps = <<>> THEN Ok(inode)
        ELSE CASE Head(comps).kind = "RootDir" -> Into(InodeFromEntryref(img, RootRef))
               [] Head(comps).kind = "Normal" ->
                      Listed(ReadDirInode(inode), Head(comps).name)
               [] OTHER -> Err("InvalidData")

\* SquashFS::inode_from_path
InodeFromPath(img, path) ==
    LET Start(r) == IF r.ok THEN PathLoop(img, r.val, Components(path, TRUE)) ELSE r
    IN  Start(InodeFromEntryref(img, RootRef))

\* the names a path is made of
PathNames == {"a", "f", "file", "link", "bad", "d", "nope", "..", "."}

MaxComps == 3

\* the text of a path of the components cs
PathText(abs, cs, trailing) ==
    LET RECURSIVE Joined(_)
        Joined(q) == IF Len(q) <= 1 THEN q ELSE <<Head(q), "/">> \o Joined(Tail(q))
    IN  (IF abs THEN <<"/">> ELSE <<>>) \o Joined(cs) \o
        (IF trailing /\ cs # <<>> THEN <<"/">> ELSE <<>>)

\* the paths given to the archive
Paths ==
    {PathText(abs, cs, trailing) :
        abs \in BOOLEAN, trailing \in BOOLEAN,
        cs \in UNION {[1 .. n -> PathNames] : n \in 0 .. MaxComps}}

\* SquashFS::new over an image, and the path of the call to come
FsInit ==
    /\ \E target \in LinkTargets, err \in ReadErrors : fsImg = FsImage(target, err)
    /\ walk = <<>>
    /\ \E path \in Paths : fsLast = [op |-> "path", path |-> path]
    /\ MuxIdle /\ FileIdle /\ CacheIdle /\ MdIdle

\* sqfs.inode_from_path(path)
FsInodeFromPath ==
    /\ fsLast.op = "path"
    /\ fsLast' = [op |-> "inode_from_path", path |-> fsLast.path,
                  res |-> InodeFromPath(fsImg, fsLast.path)]
    /\ UNCHANGED <<fsImg, walk, notFs>>

FsPathNext == FsInodeFromPath

SpecFsPath == FsInit /\ [][FsPathNext]_vars

(***************************************************************************)
(* Claims on inode_from_path                                               *)
(***************************************************************************)
\* the walk the claims describe, over the components cs from the directories entered
\* so far (the references in stack, the root first): the root component resets to the
\* root, ".." pops to the parent, "." is ignored, a name enters the entry of that name
RECURSIVE DescribedWalk(_, _, _)
DescribedWalk(img, stack, cs) ==
    LET top == img.inodes[stack[Len(stack)]]
        Enter(e) ==
            IF ~e.some THEN [status |-> "missing"]
            ELSE IF img.inodes[e.val.ref].fail # ""
            THEN [status |-> "failed", err |-> img.inodes[e.val.ref].fail]
            ELSE DescribedWalk(img, Append(stack, e.val.ref), Tail(cs))
    IN  IF cs = <<>> THEN [status |-> "ok", ref |-> stack[Len(stack)]]
        ELSE CASE Head(cs).kind = "RootDir" -> DescribedWalk(img, <<RootRef>>, Tail(cs))
               [] Head(cs).kind = "CurDir" -> DescribedWalk(img, stack, Tail(cs))
               [] Head(cs).kind = "ParentDir" ->
                      DescribedWalk(img, IF Len(stack) > 1
                                         THEN SubSeq(stack, 1, Len(stack) - 1)
                                         ELSE stack, Tail(cs))
               [] OTHER ->
                      IF top.kind \notin {"BasicDir", "ExtDir"} THEN [status |-> "notdir"]
                      ELSE Enter(Find(top.entries, Head(cs).name))

\* C23: inode_from_path walks from the root, component by component: the root
\* component resets to the root inode, ".." pops to the parent directory, "." is
\* ignored and a name moves to the inode of the entry of that name; when every name
\* on the way is there, it returns the inode the walk ends at.
C23_PathWalk ==
    LET w == DescribedWalk(fsImg, <<RootRef>>, Components(fsLast.path, TRUE))
    IN  (fsLast.op = "inode_from_path" /\ w.status = "ok") =>
            /\ fsLast.res.ok
            /\ fsLast.res.val.ref = w.ref

\* C24: inode_from_path returns not-found exactly when a component has no entry of
\* its name, and when reading the inode of an entry it found fails it returns that
\* failure.
C24_NotFoundOnlyWhenMissing ==
    LET w == DescribedWalk(fsImg, <<RootRef>>, Components(fsLast.path, TRUE))
    IN  fsLast.op = "inode_from_path" =>
            /\ fsLast.res = Err("NotFound") <=> w.status = "missing"
            /\ w.status = "failed" => fsLast.res = Err(w.err)

(***************************************************************************)
(* squashfs.rs: open_file_inode and open_file_dirent                       *)
(***************************************************************************)
\* Inode::read: the variant of extended_info that an inode of this type carries
ExtendedInfoOf(kind) ==
    CASE kind \in {"BasicDir", "ExtDir", "BasicFile", "BasicSymlink"} -> kind
      [] kind = "BasicCharDev" -> "BasicDev"
      [] kind = "BasicNamedPipe" -> "BasicIpc"
      [] OTHER -> "None"

\* FileDataReader::from_inode: a reader for a BasicFile, None for every other variant
FromInodeOption(inode) ==
    IF ExtendedInfoOf(inode.kind) = "BasicFile" THEN Ok(Some([file |-> inode.ref]))
    ELSE Ok(None)

\* SquashFS::open_file_inode: from_inode(..)?.unwrap()
OpenFileInode(inode) ==
    LET Unwrap(r) ==
            IF ~r.ok THEN r
            ELSE IF r.val.some THEN Ok(r.val.val)
            ELSE Panic
    IN  Unwrap(FromInodeOption(inode))

\* SquashFS::open_file_dirent
OpenFileDirent(img, ref) ==
    LET Open(r) == IF r.ok THEN OpenFileInode(r.val) ELSE r
    IN  Open(InodeFromEntryref(img, ref))

\* SquashFS::new over an image, and the directory entry of the call to come
FsOpenInit ==
    /\ \E target \in LinkTargets, err \in ReadErrors : fsImg = FsImage(target, err)
    /\ walk = <<>>
    /\ \E ref \in DOMAIN fsImg.inodes : fsLast = [op |-> "dirent", ref |-> ref]
    /\ MuxIdle /\ FileIdle /\ CacheIdle /\ MdIdle

\* sqfs.open_file_dirent(dir_entry)
FsOpenFile ==
    /\ fsLast.op = "dirent"
    /\ fsLast' = [op |-> "open_file", ref |-> fsLast.ref,
                  res |-> OpenFileDirent(fsImg, fsLast.ref)]
    /\ UNCHANGED <<fsImg, walk, notFs>>

FsOpenNext == FsOpenFile

SpecFsOpen == FsOpenInit /\ [][FsOpenNext]_vars

\* C25: opening as a file an inode that is not a decodable regular file (a directory,
\* a symlink, a device, an extended file) returns an error of kind Unsupported.
C25_OpenNonFileIsUnsupported ==
    (/\ fsLast.op = "open_file"
     /\ fsImg.inodes[fsLast.ref].fail = ""
     /\ fsImg.inodes[fsLast.ref].kind # "BasicFile") =>
        fsLast.res = Err("Unsupported")

(***************************************************************************)
(* superblock.rs, squashfs.rs: SquashFS::new reads the superblock from the *)
(* head of the byte stream and the id table behind it.                     *)
(***************************************************************************)
MAGIC == 1936814952

\* the fields of the superblock, in order, with their sizes in bytes
SuperblockFields ==
    <<<<"magic", 4>>, <<"inode_count", 4>>, <<"mod_time", 4>>, <<"block_size", 4>>,
      <<"frag_count", 4>>, <<"compressor", 2>>, <<"block_log", 2>>, <<"flags", 2>>,
      <<"id_count", 2>>, <<"version_major", 2>>, <<"version_minor", 2>>,
      <<"root_inode", 8>>, <<"bytes_used", 8>>, <<"id_table", 8>>, <<"xattr_table", 8>>,
      <<"inode_table", 8>>, <<"dir_table", 8>>, <<"frag_table", 8>>,
      <<"export_table", 8>>>>

RECURSIVE FieldsSize(_)
FieldsSize(fs) == IF fs = <<>> THEN 0 ELSE Head(fs)[2] + FieldsSize(Tail(fs))

\* read_u32::<LittleEndian> of four bytes
U32LE(b) == b[1] + 256 * b[2] + 65536 * b[3] + 16777216 * b[4]

\* Superblock::read: every field is read, none is examined
SuperblockRead(stream) ==
    IF Len(stream) < FieldsSize(SuperblockFields) THEN Err("UnexpectedEof")
    ELSE Ok([magic |-> U32LE(SubSeq(stream, 1, 4)),
             id_count |-> stream[31] + 256 * stream[32]])

\* SquashFS::new over a stream whose id table is empty
SquashFSNew(stream) ==
    LET Wired(sb) == IF sb.ok THEN Ok([sb |-> sb.val]) ELSE sb
    IN  Wired(SuperblockRead(stream))

\* the bytes a magic is made of: those of "hsqs" and 0
MagicBytes == {104, 115, 113, 0}

\* the lengths of the streams
StreamLens == {0, 3, 4, 95, 96, 97}

NewInit ==
    /\ \E m \in [1 .. 4 -> MagicBytes], len \in StreamLens :
           fsLast = [op |-> "stream",
                     stream |-> SubSeq(m \o [k \in 1 .. 93 |-> 0], 1, len)]
    /\ fsImg = <<>> /\ walk = <<>>
    /\ MuxIdle /\ FileIdle /\ CacheIdle /\ MdIdle

\* SquashFS::new(r)
FsNew ==
    /\ fsLast.op = "stream"
    /\ fsLast' = [op |-> "new", stream |-> fsLast.stream,
                  res |-> SquashFSNew(fsLast.stream)]
    /\ UNCHANGED <<fsImg, walk, notFs>>

NewNext == FsNew

SpecFsNew == NewInit /\ [][NewNext]_vars

\* C26: opening a stream that holds a whole superblock whose magic is not
\* 0x73717368 fails with InvalidData and gives no archive.
C26_BadMagicIsInvalidData ==
    (/\ fsLast.op = "new"
     /\ Len(fsLast.stream) >= FieldsSize(SuperblockFields)
     /\ U32LE(SubSeq(fsLast.stream, 1, 4)) # MAGIC) =>
        fsLast.res = Err("InvalidData")

(***************************************************************************)
(* path.rs: canonicalize and the loop of resolve_absolute_path.  walk is   *)
(* [rest, at_start, resolved, trailing_slash, status, res]: what is left   *)
(* of working_path behind path_components, whether path_components stands *)
(* at the start of working_path, resolved_components, trailing_slash, and  *)
(* the result once the function has returned.                              *)
(***************************************************************************)
\* PathBuf::join
Join(a, b) ==
    IF b # <<>> /\ b[1] = "/" THEN b
    ELSE a \o (IF a # <<>> /\ a[Len(a)] # "/" THEN <<"/">> ELSE <<>>) \o b

\* Components::as_path: what is left of the path, without the separators and the "."
\* at its ends
RECURSIVE AsPath(_)
AsPath(rest) ==
    IF rest = <<>> THEN <<>>
    ELSE IF Head(rest) \in {"/", "."} THEN AsPath(Tail(rest))
    ELSE IF rest[Len(rest)] \in {"/", "."} THEN AsPath(SubSeq(rest, 1, Len(rest) - 1))
    ELSE rest

\* Inode::is_symlink
IsSymlink(inode) == inode.kind \in {"BasicSymlink", "ExtSymlink"}

\* the function has returned res
Returned(w, res) == [w EXCEPT !.status = "done", !.res = res]

\* a variant of the arm that keeps the resolved components on an absolute target
ResolveNormalKeep(img, w, c, left) ==
    LET last_comp == AsPath(left) = <<>>
        Go(w1) == [w1 EXCEPT !.rest = left, !.at_start = FALSE]
        Substitute(target) ==
            IF target = <<>> THEN Returned(w, Err("InvalidData"))
            ELSE [w EXCEPT !.rest = Join(target, AsPath(left)),
                      !.at_start = TRUE]
        Link(dirent, inode) ==
            IF last_comp /\ ~w.trailing_slash
            THEN Go([w EXCEPT !.resolved = Append(@, dirent)])
            ELSE IF inode.kind = "BasicSymlink" THEN Substitute(inode.target)
            ELSE Returned(w, Err("Unsupported"))
        Read(dirent, r) ==
            IF ~r.ok THEN Returned(w, r)
            ELSE IF IsSymlink(r.val) THEN Link(dirent, r.val)
            ELSE Go([w EXCEPT !.resolved = Append(@, dirent)])
        Found(e) ==
            IF ~e.some THEN Returned(w, Err("NotFound"))
            ELSE Read(e.val, InodeFromEntryref(img, e.val.ref))
        Listed(d) == IF ~d.ok THEN Returned(w, d) ELSE Found(Find(d.val, c))
        Parent(r) == IF ~r.ok THEN Returned(w, r) ELSE Listed(ReadDirInode(r.val))
    IN  Parent(InodeFromEntryref(img, IF w.resolved # <<>>
                                      THEN w.resolved[Len(w.resolved)].ref
                                      ELSE RootRef))

\* the arm Component::Normal(c) of the loop, with left the path behind c
ResolveNormal(img, w, c, left) ==
    LET last_comp == AsPath(left) = <<>>
        Go(w1) == [w1 EXCEPT !.rest = left, !.at_start = FALSE]
        Substitute(target) ==
            IF target = <<>> THEN Returned(w, Err("InvalidData"))
            ELSE [w EXCEPT !.resolved = IF target[1] = "/" THEN <<>> ELSE @,
                           !.rest = Join(target, AsPath(left)),
                           !.at_start = TRUE]
        Link(dirent, inode) ==
            IF last_comp /\ ~w.trailing_slash
            THEN Go([w EXCEPT !.resolved = Append(@, dirent)])
            ELSE IF inode.kind = "BasicSymlink" THEN Substitute(inode.target)
            ELSE Returned(w, Err("Unsupported"))
        Read(dirent, r) ==
            IF ~r.ok THEN Returned(w, r)
            ELSE IF IsSymlink(r.val) THEN Link(dirent, r.val)
            ELSE Go([w EXCEPT !.resolved = Append(@, dirent)])
        Found(e) ==
            IF ~e.some THEN Returned(w, Err("NotFound"))
            ELSE Read(e.val, InodeFromEntryref(img, e.val.ref))
        Listed(d) == IF ~d.ok THEN Returned(w, d) ELSE Found(Find(d.val, c))
        Parent(r) == IF ~r.ok THEN Returned(w, r) ELSE Listed(ReadDirInode(r.val))
    IN  Parent(InodeFromEntryref(img, IF w.resolved # <<>>
                                      THEN w.resolved[Len(w.resolved)].ref
                                      ELSE RootRef))

\* one turn of the loop of resolve_absolute_path, or its end
ResolveTurn(img, w) ==
    LET Names == [k \in DOMAIN w.resolved |-> w.resolved[k].name]
        Turn(c) ==
            IF ~c.some THEN Returned(w, Ok(Names))
            ELSE CASE c.comp.kind = "RootDir" ->
                        IF w.resolved # <<>> THEN Returned(w, Panic)
                        ELSE [w EXCEPT !.rest = c.rest, !.at_start = FALSE]
                   [] c.comp.kind = "CurDir" ->
                        [w EXCEPT !.rest = c.rest, !.at_start = FALSE]
                   [] c.comp.kind = "ParentDir" ->
                        [w EXCEPT !.rest = c.rest, !.at_start = FALSE,
                                  !.resolved = IF @ # <<>> THEN SubSeq(@, 1, Len(@) - 1)
                                               ELSE @]
                   [] OTHER -> ResolveNormal(img, w, c.comp.name, c.rest)
    IN  Turn(NextComponent(w.rest, w.at_start))

\* canonicalize up to the loop of resolve_absolute_path
CanonicalizeStart(path, cwd) ==
    LET Resolve(target_path) ==
            [rest |-> target_path, at_start |-> TRUE, resolved |-> <<>>,
             trailing_slash |-> target_path[Len(target_path)] = "/",
             status |-> "run", res |-> <<>>]
    IN  IF path = <<>>
        THEN [rest |-> <<>>, at_start |-> TRUE, resolved |-> <<>>,
              trailing_slash |-> FALSE, status |-> "done", res |-> Err("NotFound")]
        ELSE Resolve(IF path[1] = "/" THEN path ELSE Join(cwd, path))

\* the names a path to canonicalize is made of
WalkNames == {"a", "file", "link", "loop1", "top", "d", ".."}

\* the most names of a path to canonicalize
WalkComps == 2

WalkPaths ==
    {PathText(abs, cs, trailing) :
        abs \in BOOLEAN, trailing \in BOOLEAN,
        cs \in UNION {[1 .. n -> WalkNames] : n \in 0 .. WalkComps}}

\* the working directories given to canonicalize
Cwds == {<<"/">>, <<"/", "a">>}

\* an archive, and the arguments of the call to come
WalkInit ==
    /\ \E target \in LinkTargets : fsImg = FsImage(target, "UnexpectedEof")
    /\ walk = <<>>
    /\ \E path \in WalkPaths :
           \E cwd \in IF path # <<>> /\ path[1] = "/" THEN {<<"/">>} ELSE Cwds :
               fsLast = [op |-> "args", path |-> path, cwd |-> cwd]
    /\ MuxIdle /\ FileIdle /\ CacheIdle /\ MdIdle

\* canonicalize(sqfs, path, cwd) is called
Canonicalize ==
    /\ fsLast.op = "args"
    /\ walk' = CanonicalizeStart(fsLast.path, fsLast.cwd)
    /\ fsLast' = [fsLast EXCEPT !.op = "canonicalize"]
    /\ UNCHANGED <<fsImg, notFs>>

\* the loop of resolve_absolute_path takes a turn
ResolveStep ==
    /\ fsLast.op = "canonicalize"
    /\ walk.status = "run"
    /\ walk' = ResolveTurn(fsImg, walk)
    /\ UNCHANGED <<fsImg, fsLast, notFs>>

WalkNext == Canonicalize \/ ResolveStep

SpecWalk == WalkInit /\ [][WalkNext]_vars

\* the call is made and runs on as long as it has not returned
SpecWalkFair == SpecWalk /\ WF_vars(Canonicalize) /\ WF_vars(ResolveStep)

\* canonicalize has returned
Canonicalized == fsLast.op = "canonicalize" /\ walk.status = "done"

\* the path resolve_absolute_path was given
TargetPath ==
    IF fsLast.path # <<>> /\ fsLast.path[1] = "/" THEN fsLast.path
    ELSE Join(fsLast.cwd, fsLast.path)

\* C27: when the path to resolve ends with a slash and canonicalize succeeds, the last
\* component of the result is a directory; /a/link/ with link a symlink to a regular
\* file fails.
C27_TrailingSlashNeedsDirectory ==
    (Canonicalized /\ walk.trailing_slash /\ walk.res.ok /\ walk.resolved # <<>>)
        => InodeFromEntryref(fsImg, walk.resolved[Len(walk.resolved)].ref).val.kind
               \in {"BasicDir", "ExtDir"}

\* the target of /a/link resolved against /a/, for the targets that name something
LinkResolved ==
    [t \in {<<"file">>, <<"d">>, <<"/", "f">>, <<"..", "/", "f">>, <<"d", "/">>} |->
        CASE t = <<"file">> -> <<"a", "file">>
          [] t \in {<<"d">>, <<"d", "/">>} -> <<"a", "d">>
          [] OTHER -> <<"f">>]

\* C28: canonicalizing /a/link, link a symlink whose target names something, succeeds
\* with the path of the target resolved against /a/.
C28_FinalSymlinkIsReplaced ==
    (/\ Canonicalized
     /\ fsLast.path # <<>>
     /\ TargetPath = <<"/", "a", "/", "link">>
     /\ fsImg.inodes[6].target \in DOMAIN LinkResolved)
        => walk.res = Ok(LinkResolved[fsImg.inodes[6].target])

\* C29: every call of canonicalize returns, whatever the archive and the path.
C29_CanonicalizeTerminates == <>Canonicalized

(***************************************************************************)
(* Decoding records from bytes: DirTable::load, the symlink arm of         *)
(* Inode::read, read_metadata_block and LookupTable::read.  A reader is    *)
(* the bytes r and a position pos in them.                                 *)
(***************************************************************************)
\* read_exact of n bytes at pos
ReadExact(r, pos, n) ==
    IF pos + n > Len(r) THEN Err("UnexpectedEof")
    ELSE Ok(SubSeq(r, pos + 1, pos + n))

\* u16::from_le_bytes
U16FromLE(b) == b[1] + 256 * b[2]

\* u32::from_le_bytes
U32FromLE(b) == U32(b[3] + 256 * b[4], b[1] + 256 * b[2])

\* r.take(n).read_to_end of a u32 count n: the bytes there are, at most n
TakeToEnd(r, pos, n) ==
    IF n.hi > 0 \/ pos + n.lo > Len(r) THEN SubSeq(r, pos + 1, Len(r))
    ELSE SubSeq(r, pos + 1, pos + n.lo)

\* CString::new(bytes).unwrap()
CStringNew(bytes) ==
    IF \E k \in DOMAIN bytes : bytes[k] = 0 THEN Panic ELSE Ok(bytes)

\* one turn of the loop of DirTable::load, at pos: the entry and the position behind it
DirEntryLoad(r, pos, checked) ==
    LET Named(h, name_buf, name) ==
            IF ~name.ok THEN name
            ELSE Ok([entry |-> [offset |-> U16FromLE(SubSeq(h, 1, 2)),
                                inode_offset |-> U16FromLE(SubSeq(h, 3, 4)),
                                inode_type |-> U16FromLE(SubSeq(h, 5, 6)),
                                name |-> name.val],
                     pos |-> pos + 8 + Len(name_buf)])
        Taken(h, name_size, name_buf) ==
            IF Len(name_buf) # name_size THEN Err("UnexpectedEof")
            ELSE Named(h, name_buf, CStringNew(name_buf))
        Sized(h, size) ==
            IF size = Half - 1
            THEN IF checked THEN Panic ELSE Taken(h, 0, <<>>)
            ELSE Taken(h, size + 1, TakeToEnd(r, pos + 8, ToU32(size + 1)))
        Head8(h) == IF ~h.ok THEN h ELSE Sized(h.val, U16FromLE(SubSeq(h.val, 7, 8)))
    IN  Head8(ReadExact(r, pos, 8))

\* the loop of DirTable::load with n turns to go
RECURSIVE DirEntriesLoad(_, _, _, _)
DirEntriesLoad(r, pos, n, checked) ==
    LET Rest(e, t) == IF t.ok THEN Ok(<<e>> \o t.val) ELSE t
        Loaded(e) ==
            IF ~e.ok THEN e
            ELSE Rest(e.val.entry, DirEntriesLoad(r, e.val.pos, n - 1, checked))
    IN  IF n = 0 THEN Ok(<<>>) ELSE Loaded(DirEntryLoad(r, pos, checked))

\* DirTable::load.  A count above what r can hold ends at the end of r, an entry
\* taking 8 bytes at least.
DirTableLoad(r, checked) ==
    LET Turns(count) == IF count.hi > 0 \/ count.lo > Len(r) THEN Len(r) ELSE count.lo
        Table(h, count, entries) ==
            IF ~entries.ok THEN entries
            ELSE Ok([count |-> count, start |-> U32FromLE(SubSeq(h, 5, 8)),
                     inode_number |-> U32FromLE(SubSeq(h, 9, 12)),
                     entries |-> entries.val])
        Counted(h, count) ==
            IF ~count.ok THEN count
            ELSE Table(h, count.val, DirEntriesLoad(r, 12, Turns(count.val), checked))
        Head12(h) ==
            IF ~h.ok THEN h
            ELSE Counted(h.val, U32Add(U32FromLE(SubSeq(h.val, 1, 4)), ToU32(1), checked))
    IN  Head12(ReadExact(r, 0, 12))

\* Inode::read, the arm InodeType::BasicSymlink, at pos
SymlinkRead(r, pos) ==
    LET Pathed(link_count, target_path) ==
            IF ~target_path.ok THEN target_path
            ELSE Ok([link_count |-> link_count, target_path |-> target_path.val])
        Taken(link_count, target_size, path_buf) ==
            IF target_size.hi > 0 \/ Len(path_buf) # target_size.lo
            THEN Err("UnexpectedEof")
            ELSE Pathed(link_count, CStringNew(path_buf))
        Sized(link_count, target_size) ==
            Taken(link_count, target_size, TakeToEnd(r, pos + 8, target_size))
        Head8(h) ==
            IF ~h.ok THEN h
            ELSE Sized(U32FromLE(SubSeq(h.val, 1, 4)), U32FromLE(SubSeq(h.val, 5, 8)))
    IN  Head8(ReadExact(r, pos, 8))

\* read_metadata_block at pos: [res, pos], res the on-disk size of the block with
\* its header and the bytes it decodes to, pos where the reader stands afterwards
\* (a read_exact that meets the end leaves the reader at the end)
ReadMetadataBlockAt(r, pos) ==
    LET End == IF pos > Len(r) THEN pos ELSE Len(r)
        Stored(size, b) ==
            IF b.ok THEN [res |-> Ok([size |-> size + 2, data |-> b.val]),
                          pos |-> pos + 2 + size]
            ELSE [res |-> b, pos |-> End]
        Packed(size, z) ==
            [res |-> IF StreamOk(z) THEN Ok([size |-> size + 2, data |-> Decode(z)])
                     ELSE Err("InvalidData"),
             pos |-> pos + 2 + Len(z)]
        Block(header) ==
            LET size == header % MetaUncompressedFlag
            IN  IF size > MetadataBlockSize
                THEN [res |-> Err("InvalidData"), pos |-> pos + 2]
                ELSE IF header >= MetaUncompressedFlag
                THEN Stored(size, ReadExact(r, pos + 2, size))
                ELSE Packed(size, TakeToEnd(r, pos + 2, ToU32(size)))
        Head2(h) == IF ~h.ok THEN [res |-> h, pos |-> End] ELSE Block(U16FromLE(h.val))
    IN  Head2(ReadExact(r, pos, 2))

\* read_metadata_block at pos: the bytes the block decodes to
ReadMetadataBlock(r, pos) ==
    LET Data(b) == IF b.res.ok THEN Ok(b.res.val.data) ELSE b.res
    IN  Data(ReadMetadataBlockAt(r, pos))

\* <u32 as FromBytes>::BYTE_SIZE
IdByteSize == 4

\* the loop of LookupTable::<u32>::read over the items of one block
RECURSIVE LookupItems(_, _)
LookupItems(data, n) ==
    LET Rest(e, t) == IF t.ok THEN Ok(<<e>> \o t.val) ELSE t
    IN  IF n = 0 THEN Ok(<<>>)
        ELSE IF Len(data) < IdByteSize THEN Panic
        ELSE Rest(U32FromLE(SubSeq(data, 1, IdByteSize)),
                  LookupItems(SubSeq(data, IdByteSize + 1, Len(data)), n - 1))

\* LookupTable::<u32>::read of at most MetadataBlockSize / IdByteSize items
LookupTableRead(r, table_offset, item_count) ==
    LET block_count == (item_count + MetadataBlockSize \div IdByteSize - 1)
                           \div (MetadataBlockSize \div IdByteSize)
        Decoded(data) == IF ~data.ok THEN data ELSE LookupItems(data.val, item_count)
        Pointed(p) ==
            IF ~p.ok THEN p
            ELSE IF \E k \in 3 .. 8 : p.val[k] # 0 THEN Err("UnexpectedEof")
            ELSE Decoded(ReadMetadataBlock(r, U16FromLE(p.val)))
    IN  IF block_count = 0 THEN Ok(<<>>)
        ELSE Pointed(ReadExact(r, table_offset, 8))

\* the names of directory entries and the targets of symlinks, as bytes
NameBytes == {<<97>>, <<0>>, <<97, 98>>, <<97, 0>>, <<0, 98>>}

\* the bytes of a directory entry with the name name, size being its name_size field
EntryBytes(name, size) == <<0, 0, 0, 0, 2, 0>> \o U16LE(size) \o name

\* directory tables of one and of two entries, with the lengths of their names and
\* with lengths that are not theirs, and tables whose count field is 0xFFFFFFFF
DirTableBytes ==
    LET Entries == {EntryBytes(name, size) : name \in NameBytes, size \in 0 .. 2}
                      \cup {EntryBytes(name, Half - 1) : name \in {<<97>>}}
        Header(c) == (IF c = 255 THEN <<c, c, c, c>> ELSE <<c, 0, 0, 0>>) \o <<0, 16, 0, 0>> \o <<7, 0, 0, 0>>
    IN  {Header(0) \o e : e \in Entries}
            \cup {Header(1) \o e1 \o e2 :
                      e1 \in {EntryBytes(name, Len(name) - 1) : name \in NameBytes},
                      e2 \in Entries}
            \cup {Header(255) \o e : e \in Entries}

\* the symlink arms of inodes: link_count, target_size, target
SymlinkBytes ==
    {<<1, 0, 0, 0>> \o <<size, 0, 0, top>> \o name :
        name \in NameBytes, size \in 0 .. 3, top \in {0, 255}}

\* every stream cut short
Prefixes(streams) == UNION {{SubSeq(r, 1, n) : n \in 0 .. Len(r)} : r \in streams}

\* the payloads of a lookup-table block, stored and packed
BlockPayloads ==
    {[stored |-> TRUE, bytes |-> [k \in 1 .. n |-> k]] : n \in 0 .. 2 * IdByteSize}
        \cup {[stored |-> FALSE, bytes |-> <<5, n>>] : n \in 0 .. 2 * IdByteSize}
        \cup {[stored |-> FALSE, bytes |-> <<5, 4, 9>>]}

\* a lookup table of one block: the block at 0 behind its header, then the pointer
\* to it
LookupBytes ==
    {U16LE(Len(p.bytes) + (IF p.stored THEN MetaUncompressedFlag ELSE 0)) \o p.bytes
         \o <<0, 0, 0, 0, 0, 0, 0, far>> :
        p \in BlockPayloads, far \in {0, 1}}

\* ---- metadata.rs: FragmentLookupTable, a lookup table of several blocks ----

\* <FragmentEntry as FromBytes>::BYTE_SIZE
FragByteSize == 16

\* <FragmentEntry as FromBytes>::from_bytes
FragmentEntryFromBytes(buf) ==
    [start |-> <<U16FromLE(SubSeq(buf, 1, 2)), U16FromLE(SubSeq(buf, 3, 4)),
                 U16FromLE(SubSeq(buf, 5, 6)), U16FromLE(SubSeq(buf, 7, 8))>>,
     size |-> U32FromLE(SubSeq(buf, 9, 12))]

\* the loop of LookupTable::read over r.read_u64: block_count pointers from pos, or
\* the end of r before the last of them; a pointer beyond 16 bits is kept as an
\* address past the end of the image
ReadPointers(r, pos, block_count) ==
    LET Pointer(b) == IF \E k \in 3 .. 8 : b[k] # 0 THEN Len(r) + 1 ELSE U16FromLE(b)
    IN  IF pos + 8 * block_count > Len(r) THEN Err("UnexpectedEof")
        ELSE Ok([k \in 1 .. block_count |->
                     Pointer(SubSeq(r, pos + 8 * (k - 1) + 1, pos + 8 * k))])

RECURSIVE FragmentItems(_, _, _, _)
\* the loop of LookupTable::<FragmentEntry>::read over n in 0..item_count, from an n
\* at which a block is read: the turns on that block, then the blocks behind it
FragmentItems(r, block_offsets, item_count, n) ==
    LET per == MetadataBlockSize \div FragByteSize
        count == IF item_count.hi > 0 \/ item_count.lo - n > per THEN per
                 ELSE item_count.lo - n
        Records(data) ==
            [i \in 1 .. count |->
                FragmentEntryFromBytes(SubSeq(data, (i - 1) * FragByteSize + 1,
                                              i * FragByteSize))]
        Rest(es, t) == IF t.ok THEN Ok(es \o t.val) ELSE t
        Block(d) ==
            IF ~d.ok THEN d
            ELSE IF Len(d.val) < count * FragByteSize THEN Panic
            ELSE Rest(Records(d.val),
                      FragmentItems(r, block_offsets, item_count, n + count))
    IN  IF ToU32(n) = item_count THEN Ok(<<>>)
        ELSE IF n \div per + 1 > Len(block_offsets) THEN Panic
        ELSE Block(ReadMetadataBlock(r, block_offsets[n \div per + 1]))

\* LookupTable::<FragmentEntry>::read(r, table_offset, item_count, compressor)
FragmentTableRead(r, table_offset, item_count, checked) ==
    LET Table(offs, e) ==
            IF e.ok THEN Ok([block_offsets |-> offs, entries |-> e.val]) ELSE e
        Entries(p) ==
            IF ~p.ok THEN p
            ELSE Table(p.val, FragmentItems(r, p.val, item_count, 0))
        Pointers(bc) ==
            IF ~bc.ok THEN bc ELSE Entries(ReadPointers(r, table_offset, bc.val))
    IN  Pointers(DivCeil(item_count, MetadataBlockSize \div FragByteSize, checked))

\* the 16 bytes of fragment record i of a table
FragRecord(i) ==
    <<i % 256, i \div 256, 1, 0, 0, 0, 0, 0, (3 * i) % 256, 7, 0, 0, 0, 0, 0, 0>>

\* the records from .. to - 1, one after the other
FragRecords(from, to) ==
    IF from >= to THEN <<>>
    ELSE [k \in 1 .. (to - from) * FragByteSize |->
              FragRecord(from + (k - 1) \div FragByteSize)[((k - 1) % FragByteSize) + 1]]

\* the stored metadata block k of a table of n records: a header and at most
\* MetadataBlockSize / FragByteSize records
FragBlock(k, n) ==
    LET per == MetadataBlockSize \div FragByteSize
        last == IF n < (k + 1) * per THEN n ELSE (k + 1) * per
        Block(payload) == U16LE(Len(payload) + MetaUncompressedFlag) \o payload
    IN  Block(FragRecords(k * per, last))

RECURSIVE FragAddr(_, _, _)
\* the address of block k when the blocks are laid out from 0 in this order
FragAddr(order, n, k) ==
    IF Head(order) = k THEN 0
    ELSE Len(FragBlock(Head(order), n)) + FragAddr(Tail(order), n, k)

RECURSIVE FragBlocksBytes(_, _)
FragBlocksBytes(order, n) ==
    IF order = <<>> THEN <<>>
    ELSE FragBlock(Head(order), n) \o FragBlocksBytes(Tail(order), n)

\* the image of a fragment table of n records: its blocks in index order or in
\* the reverse order, then the pointers to them in index order
FragTableImage(n, rev) ==
    LET per == MetadataBlockSize \div FragByteSize
        bc == (n + per - 1) \div per
        order == [p \in 1 .. bc |-> IF rev THEN bc - p ELSE p - 1]
        Pointer(k) == U16LE(FragAddr(order, n, k)) \o <<0, 0, 0, 0, 0, 0>>
        Image(blocks) ==
            [r |-> blocks \o [j \in 1 .. 8 * bc |-> Pointer((j - 1) \div 8)[((j - 1) % 8) + 1]],
             table_offset |-> Len(blocks), n |-> n]
    IN  Image(FragBlocksBytes(order, n))

\* the numbers of records of the fragment tables read
FragCounts == {0, 1, 2, 511, 512, 513, 1024, 1025}

\* the record counts a superblock declares beyond the table it has
FragDeclared == {U32MAX, U32(65535, 65025)}

\* FragmentLookupTable::read, in a build with and without overflow checks
FsFragmentTableRead ==
    /\ fsLast.op = "bytes" /\ fsLast.what = "FragmentTable"
    /\ \E checked \in BOOLEAN :
           fsLast' = [op |-> "read", what |-> fsLast.what, n |-> fsLast.n,
                      item_count |-> fsLast.item_count, checked |-> checked,
                      block_count |-> DivCeil(fsLast.item_count,
                                              MetadataBlockSize \div FragByteSize, checked),
                      res |-> FragmentTableRead(fsLast.r, fsLast.table_offset,
                                                fsLast.item_count, checked)]
    /\ UNCHANGED <<fsImg, walk, notFs>>

\* ---- metadata.rs: DirTable::read_for_inode ----

RECURSIVE EntriesSize(_)
\* the bytes the entries of a table take: 8 bytes and the name each
EntriesSize(entries) ==
    IF entries = <<>> THEN 0
    ELSE 8 + Len(Head(entries).name) + EntriesSize(Tail(entries))

RECURSIVE DirTablesRead(_, _, _, _)
\* the loop of DirTable::read_for_inode over r.take(limit), r standing at pos: the
\* tables, or the error, and the bytes of r behind the tables loaded
DirTablesRead(r, pos, limit, checked) ==
    LET end == IF pos + limit > Len(r) THEN Len(r) ELSE pos + limit
        Rest(t, rest) ==
            [res |-> IF rest.res.ok THEN Ok(<<t>> \o rest.res.val) ELSE rest.res,
             loaded |-> rest.loaded]
        Next(t, size) == Rest(t, DirTablesRead(r, pos + size, limit - size, checked))
        Loaded(t) ==
            IF ~t.ok THEN [res |-> t, loaded |-> pos]
            ELSE Next(t.val, 12 + EntriesSize(t.val.entries))
    IN  IF limit = 0 THEN [res |-> Ok(<<>>), loaded |-> pos]
        ELSE Loaded(DirTableLoad(SubSeq(r, pos + 1, end), checked))

\* DirTable::read_for_inode behind the seek to the listing, r holding the directory
\* table from the listing on: reader = r.take(file_size - 3).  A limit beyond the
\* bytes of r is kept as one byte more than r has.
DirTableReadForInode(r, file_size, checked) ==
    LET Limit(l) == IF l.hi > 0 \/ l.lo > Len(r) THEN Len(r) + 1 ELSE l.lo
    IN  IF file_size.hi = 0 /\ file_size.lo < 3 /\ checked
        THEN [res |-> Panic, loaded |-> 0]
        ELSE DirTablesRead(r, 0, Limit(WrappingAddSigned(file_size, 0 - 3)), checked)

\* a directory table of one entry with the name name
OneEntryTable(name) ==
    <<0, 0, 0, 0>> \o <<0, 16, 0, 0>> \o <<7, 0, 0, 0>> \o EntryBytes(name, Len(name) - 1)

\* the listings of directories: of one and of two tables
DirListings ==
    {OneEntryTable(<<97>>), OneEntryTable(<<97, 98>>),
     OneEntryTable(<<97>>) \o OneEntryTable(<<98>>)}

\* what follows the listing of a directory in the directory table
DirFollowers == {<<>>, OneEntryTable(<<99>>)}

\* DirTable::read_for_inode(r, sb, inode), in a build with and without overflow checks
FsReadForInode ==
    /\ fsLast.op = "bytes" /\ fsLast.what = "DirListing"
    /\ \E checked \in BOOLEAN :
           \E out \in {DirTableReadForInode(fsLast.r, fsLast.file_size, checked)} :
               fsLast' = [op |-> "read_for_inode", what |-> fsLast.what, r |-> fsLast.r,
                          listing |-> fsLast.listing, file_size |-> fsLast.file_size,
                          checked |-> checked, res |-> out.res, loaded |-> out.loaded]
    /\ UNCHANGED <<fsImg, walk, notFs>>

\* the number of items of a lookup table
ItemCounts == 0 .. 2

\* bytes to decode, and the call to come
DecodeInit ==
    /\ fsImg = <<>>
    /\ walk = <<>>
    /\ \/ \E r \in Prefixes(DirTableBytes) : fsLast = [op |-> "bytes", what |-> "DirTable", r |-> r]
       \/ \E r \in Prefixes(SymlinkBytes) : fsLast = [op |-> "bytes", what |-> "Symlink", r |-> r]
       \/ \E r \in LookupBytes, n \in ItemCounts, cut \in 0 .. 1 :
              fsLast = [op |-> "bytes", what |-> "LookupTable",
                        r |-> SubSeq(r, 1, Len(r) - cut),
                        table_offset |-> Len(r) - 8, item_count |-> n]
       \/ \E n \in FragCounts, rev \in BOOLEAN :
              \E declared \in {ToU32(n)} \cup FragDeclared, img \in {FragTableImage(n, rev)} :
                  fsLast = [op |-> "bytes", what |-> "FragmentTable", r |-> img.r,
                            table_offset |-> img.table_offset, n |-> n,
                            item_count |-> declared]
       \/ \E listing \in DirListings, after \in DirFollowers :
              \E size \in 0 .. Len(listing) + 5 :
                  fsLast = [op |-> "bytes", what |-> "DirListing",
                            r |-> listing \o after, listing |-> listing,
                            file_size |-> ToU32(size)]
    /\ MuxIdle /\ FileIdle /\ CacheIdle /\ MdIdle

\* DirTable::load(r), in a build with and without overflow checks
FsDirTableLoad ==
    /\ fsLast.op = "bytes" /\ fsLast.what = "DirTable"
    /\ \E checked \in BOOLEAN :
           fsLast' = [op |-> "load", what |-> fsLast.what, r |-> fsLast.r,
                      res |-> DirTableLoad(fsLast.r, checked)]
    /\ UNCHANGED <<fsImg, walk, notFs>>

\* Inode::read(r) of a symlink, behind the common fields
FsSymlinkRead ==
    /\ fsLast.op = "bytes" /\ fsLast.what = "Symlink"
    /\ fsLast' = [op |-> "read", what |-> fsLast.what, r |-> fsLast.r,
                  res |-> SymlinkRead(fsLast.r, 0)]
    /\ UNCHANGED <<fsImg, walk, notFs>>

\* LookupTable::<u32>::read(r, table_offset, item_count, compressor)
FsLookupTableRead ==
    /\ fsLast.op = "bytes" /\ fsLast.what = "LookupTable"
    /\ fsLast' = [op |-> "read", what |-> fsLast.what, r |-> fsLast.r,
                  item_count |-> fsLast.item_count,
                  res |-> LookupTableRead(fsLast.r, fsLast.table_offset,
                                          fsLast.item_count)]
    /\ UNCHANGED <<fsImg, walk, notFs>>

DecodeNext ==
    FsDirTableLoad \/ FsSymlinkRead \/ FsLookupTableRead \/ FsFragmentTableRead
        \/ FsReadForInode

SpecDecode == DecodeInit /\ [][DecodeNext]_vars

\* C30: decoding a directory table, a symlink inode or a lookup table from bytes that
\* are not a well-formed record (a name or target with a zero byte, a block that
\* decodes to fewer bytes than the items need) returns an error, InvalidData or
\* UnexpectedEof, or a value; it never panics.
C30_MalformedRecordIsAnError ==
    (fsLast.op \in {"load", "read"} /\ ~fsLast.res.ok)
        => fsLast.res.val \in {"InvalidData", "UnexpectedEof"}

(***************************************************************************)
(* Further claims on the file data reader                                  *)
(***************************************************************************)
\* C31: a seek on a file data reader changes the position only: the inner block
\* reader is what it was, nothing is read from or sought on the backing stream.
C31_SeekOnlyMovesPosition ==
    [][\A from \in FileSeekArgs :
           (fLast'.op = "seek" /\ FileSeek(from))
               => (fInner' = fInner /\ ~fLast'.backing)]_vars

(***************************************************************************)
(* The state of a ReaderMux                                                *)
(***************************************************************************)
\* the identities are nonzero, differ, and grow in the order they were handed out;
\* a client recorded active stands where the stream stands; the client of the last
\* read or seek is the active one
MuxStateOk ==
    /\ \A i \in 1..Len(clients) : clients[i].id # 0 /\ clients[i].id < next_client_id
    /\ \A i, j \in 1..Len(clients) : i < j => clients[i].id < clients[j].id
    /\ sr.active_id = 0 \/ \E i \in 1..Len(clients) : clients[i].id = sr.active_id
    /\ \A i \in 1..Len(clients) : clients[i].id = sr.active_id => sr.inner = clients[i].pos
    /\ mxLast.op \in {"read", "seek"} => sr.active_id = mxLast.id
    /\ mxLast.op = "none" => sr.active_id = 0

\* C32: in every state of a ReaderMux whose operations have not failed, the client
\* identities are nonzero, unique and increasing; the active identity is 0 or that
\* of the client that read or sought last (handing out a client does not change
\* it); and the stream stands at the stored position of the active client.
C32_MuxState ==
    /\ []MuxStateOk
    /\ [][mxLast'.op = "client" => sr'.active_id = sr.active_id]_vars

\* the second client has taken the stream over by a seek, the first one stands
\* somewhere else
C32_Witness ==
    /\ Len(clients) = 2
    /\ mxLast.op = "seek" /\ mxLast.swap /\ mxLast.id = clients[2].id
    /\ sr.active_id = clients[2].id
    /\ clients[1].pos > 0 /\ clients[1].pos # clients[2].pos

(***************************************************************************)
(* block.rs: a CachingReader on its own, over a forward-only reader that   *)
(* puts out the bytes of cImg.data, beside a Cursor over the same bytes.   *)
(* block_readers[1] is the CachingReader (sr.inner the position of its     *)
(* cache Cursor), cLast.ref the position of the Cursor beside it.          *)
(***************************************************************************)
\* the length of the inner reader's output, and the longest buffer read into
CrLen == 4
CrBuf == 2

\* the output of the inner reader
CrData == [i \in 1..CrLen |-> 30 + i]

\* <CachingReader as Seek>::seek
CachingReaderSeek(b, from) ==
    LET Sought(r) == [res |-> r, b |-> IF r.ok THEN [b EXCEPT !.sr.inner = r.val] ELSE b]
    IN  Sought(CursorSeek(Len(b.cache), b.sr.inner, from))

CrSeekArgs ==
    {SeekFrom("Start", p) : p \in 0..(CrLen + 1)}
    \cup {SeekFrom("Current", d) : d \in {-1, 1, 2}}
    \cup {SeekFrom("End", d) : d \in {-1, 0}}

\* CachingReader::new(inner)
CrInit ==
    /\ cImg = [data |-> CrData]
    /\ block_readers = <<NewBlockReader(
                           [NewDecoder("Buffer", [id |-> 0, pos |-> 0], 0, CrLen)
                               EXCEPT !.pending = CrData])>>
    /\ cLast = [op |-> "new", res |-> Ok(0), want |-> Ok(0), ref |-> 0]
    /\ compressor = "" /\ cMux = <<>> /\ readers = <<>>
    /\ decoders = <<>> /\ headers = <<>> /\ produced = <<>>
    /\ MuxIdle /\ FileIdle /\ MdIdle /\ FsIdle

\* caching_reader.read(buf) with a buffer of n bytes
CrRead(n) ==
    /\ \E r \in {CachingReaderRead(<<>>, MuxNew, block_readers[1], n)} :
           /\ block_readers' = <<r.b>>
           /\ cLast' = [op |-> "read", res |-> r.res,
                        want |-> Ok(CursorRead(cImg.data, cLast.ref, n)),
                        ref |-> cLast.ref + Len(CursorRead(cImg.data, cLast.ref, n))]
    /\ UNCHANGED <<cImg, compressor, cMux, readers, decoders, headers, produced, notCache>>

\* caching_reader.seek(from)
CrSeek(from) ==
    /\ \E r \in {CachingReaderSeek(block_readers[1], from)},
          w \in {CursorSeek(Len(cImg.data), cLast.ref, from)} :
           /\ r.b.sr.inner <= CrLen + 1
           /\ w.ok => w.val <= CrLen + 1
           /\ block_readers' = <<r.b>>
           /\ cLast' = [op |-> "seek", res |-> r.res, want |-> w,
                        ref |-> IF w.ok THEN w.val ELSE cLast.ref]
    /\ UNCHANGED <<cImg, compressor, cMux, readers, decoders, headers, produced, notCache>>

CrNext ==
    \/ \E n \in 0..CrBuf : CrRead(n)
    \/ \E from \in CrSeekArgs : CrSeek(from)

SpecCachingReader == CrInit /\ [][CrNext]_vars

\* C33: a CachingReader gives what a Cursor over the whole output of its inner
\* reader gives: every read and every seek (from start, from current, from end)
\* returns the same bytes or position and leaves the same position; the cache
\* is the part of the output pulled so far, the inner reader holding the rest.
C33_CachingReaderIsCursor ==
    /\ cLast.res = cLast.want
    /\ block_readers[1].sr.inner = cLast.ref
    /\ block_readers[1].cache \o block_readers[1].dec.pending = cImg.data

\* C34: the descriptors of the data blocks of a file are contiguous on disk: the
\* first starts at blocks_start, each next one where the one before it ends, its
\* end being its start plus its on-disk length, stored compressed or not.
C34_DataBlocksContiguous ==
    \A k \in 1..Len(fImg.block_sizes) :
        fBlocks[k].disk_offset =
            IF k = 1 THEN fImg.blocks_start
            ELSE fBlocks[k - 1].disk_offset + fBlocks[k - 1].disk_len

\* the sum of data_len over the first k descriptors
RECURSIVE DataLenSum(_, _)
DataLenSum(bl, k) == IF k = 0 THEN 0 ELSE bl[k].data_len + DataLenSum(bl, k - 1)

\* C35: the data_len of the descriptors of a file sum to file_size, and every
\* position below file_size falls into a descriptor that exists, before the end
\* of its data.  On a reader that is open this is said of its descriptors; on a
\* decoded inode, of the number of descriptors from_inode makes of it, one for
\* each block size word read and one for the fragment.
C35_DescriptorsCoverFile ==
    /\ fImg # <<>> =>
          /\ DataLenSum(fBlocks, Len(fBlocks)) = fImg.file_size
          /\ \A pos \in 0..(fImg.file_size - 1) :
                 /\ (pos \div fImg.block_size) + 1 <= Len(fBlocks)
                 /\ pos % fImg.block_size < BlockAt(pos).data_len
    /\ (call # <<>> /\ call.op = "read" /\ call.res.ok /\ call.file_size # U32(0, 0)) =>
          U32Div(U32Sub1(call.file_size, FALSE).val, call.block_size)
              < call.res.val + (IF call.frag_index = U32MAX THEN 0 ELSE 1)

\* C36: a read or seek on a file data reader whose inner block reader was left
\* empty by a failed operation returns a result or an error; it does not panic.
C36_UsableAfterFailedOpen ==
    [][(fInner # <<>> /\ fInner.kind = "None") => fLast'.res # Panic]_vars

(***************************************************************************)
(* metadata.rs: CachingMetadataReader.  readers[1] is the reader: inner    *)
(* the position of the backing reader, then its fields; cImg.disk the      *)
(* bytes of the backing reader; decoders counts the times a block was      *)
(* decoded, by its address.                                                *)
(***************************************************************************)
\* CachingMetadataReader::new over a reader at 0
CmrNew ==
    [inner |-> 0, cur_pos |-> 0, stream_pos |-> 0, block_cache |-> <<>>,
     cur_key |-> None, cur_data |-> None, cur_offset |-> 0]

\* the block in hand goes back to block_cache
CmrDeposit(m) ==
    [m EXCEPT !.block_cache = (m.cur_key.val :> m.cur_data.val) @@ @,
              !.cur_key = None, !.cur_data = None]

\* <CachingMetadataReader as Read>::read with a buffer of n bytes: [res, m, from];
\* from is where the backing reader stood when a block was read from it, -1 when
\* none was
CmrRead(disk, m, n) ==
    LET Served(m1, from) ==
            LET d == m1.cur_data.val.data
                read_size == Min(n, Len(d) - m1.cur_offset)
                m2 == [m1 EXCEPT !.cur_offset = @ + read_size]
            IN  [res |-> Ok(SubSeq(d, m1.cur_offset + 1, m1.cur_offset + read_size)),
                 m |-> IF m2.cur_offset >= Len(d)
                       THEN [CmrDeposit(m2) EXCEPT !.cur_offset = 0]
                       ELSE m2,
                 from |-> from]
        Cached(new_key) ==
            Served([m EXCEPT !.block_cache = [k \in DOMAIN @ \ {new_key} |-> @[k]],
                             !.cur_pos = @ + m.block_cache[new_key].size,
                             !.cur_key = Some(new_key),
                             !.cur_data = Some(m.block_cache[new_key]),
                             !.cur_offset = 0],
                   -1)
        Block(m1, new_key, b) ==
            IF ~b.res.ok
            THEN [res |-> b.res, m |-> [m1 EXCEPT !.inner = b.pos], from |-> m1.inner]
            ELSE Served([m1 EXCEPT !.inner = b.pos,
                                   !.stream_pos = @ + b.res.val.size,
                                   !.cur_pos = @ + b.res.val.size,
                                   !.cur_key = Some(new_key),
                                   !.cur_data = Some(b.res.val),
                                   !.cur_offset = 0],
                        m1.inner)
        Fresh(m1, new_key) == Block(m1, new_key, ReadMetadataBlockAt(disk, m1.inner))
        New(new_key) ==
            Fresh(IF m.cur_pos # m.stream_pos
                  THEN [m EXCEPT !.inner = m.cur_pos, !.stream_pos = m.cur_pos]
                  ELSE m,
                  new_key)
    IN  IF m.cur_data.some THEN Served(m, -1)
        ELSE IF m.cur_pos \in DOMAIN m.block_cache THEN Cached(m.cur_pos)
        ELSE New(m.cur_pos)

\* <CachingMetadataReader as Seek>::seek: [res, m]
CmrSeek(m, from) ==
    LET Moved(m1) ==
            CASE from.whence = "Start" ->
                   [res |-> Ok(from.off), m |-> [m1 EXCEPT !.cur_pos = from.off]]
              [] from.whence = "Current" ->
                   [res |-> Ok(m1.cur_pos + from.off),
                    m |-> [m1 EXCEPT !.cur_pos = @ + from.off]]
              [] OTHER -> [res |-> Err("Unsupported"), m |-> m1]
    IN  Moved(IF m.cur_data.some THEN CmrDeposit(m) ELSE m)

\* the second block of the stream, by what is wrong with it
CmrSecondBlocks ==
    [good |-> U16LE(2 + MetaUncompressedFlag) \o <<61, 62>>,
     packed |-> U16LE(2) \o <<70, 3>>,
     oversize |-> U16LE(MetadataBlockSize + 1 + MetaUncompressedFlag) \o <<61, 62>>,
     short |-> U16LE(3 + MetaUncompressedFlag) \o <<61, 62>>,
     corrupt |-> U16LE(3) \o <<70, 3, 9>>]

\* a stream of two metadata blocks, the first one sound, and a third behind them
CmrDisk(first, second) ==
    (IF first = "stored" THEN U16LE(3 + MetaUncompressedFlag) \o <<51, 52, 53>>
     ELSE U16LE(2) \o <<51, 3>>)
    \o CmrSecondBlocks[second]
    \o (IF second \in {"short"} THEN <<>> ELSE U16LE(1 + MetaUncompressedFlag) \o <<81>>)

\* the address of the second block
CmrSecond(first) == IF first = "stored" THEN 5 ELSE 4

\* the longest buffer read into
CmrBuf == 3

CmrInit ==
    /\ \E first \in {"stored", "packed"}, second \in DOMAIN CmrSecondBlocks :
           cImg = [disk |-> CmrDisk(first, second), second |-> CmrSecond(first)]
    /\ readers = <<CmrNew>>
    /\ decoders = <<>>
    /\ cLast = [op |-> "new", res |-> Ok(0), key |-> 0, from |-> -1]
    /\ compressor = "Gzip" /\ cMux = <<>> /\ block_readers = <<>>
    /\ headers = <<>> /\ produced = <<>>
    /\ MuxIdle /\ FileIdle /\ MdIdle /\ FsIdle

\* reader.read(buf) with a buffer of n bytes
CmrDoRead(n) ==
    /\ \E r \in {CmrRead(cImg.disk, readers[1], n)} :
           /\ readers' = <<r.m>>
           /\ decoders' = IF r.from >= 0 /\ r.res.ok
                          THEN (readers[1].cur_pos :>
                                   (IF readers[1].cur_pos \in DOMAIN decoders
                                    THEN decoders[readers[1].cur_pos] + 1 ELSE 1))
                               @@ decoders
                          ELSE decoders
           /\ cLast' = [op |-> "read", res |-> r.res, key |-> readers[1].cur_pos,
                        from |-> r.from]
    /\ UNCHANGED <<cImg, compressor, cMux, block_readers, headers, produced, notCache>>

\* reader.seek(from)
CmrDoSeek(from) ==
    /\ \E r \in {CmrSeek(readers[1], from)} :
           /\ readers' = <<r.m>>
           /\ cLast' = [op |-> "seek", res |-> r.res, key |-> 0, from |-> -1]
    /\ UNCHANGED <<cImg, decoders, compressor, cMux, block_readers, headers, produced,
                   notCache>>

CmrNext ==
    \/ \E n \in 0..CmrBuf : CmrDoRead(n)
    \/ \E p \in {0, cImg.second} : CmrDoSeek(SeekFrom("Start", p))
    \/ CmrDoSeek(SeekFrom("Current", 0))
    \/ CmrDoSeek(SeekFrom("End", 0))

SpecCmr == CmrInit /\ [][CmrNext]_vars

\* C37: after every read and seek of a CachingMetadataReader, failed ones too,
\* stream_pos is the position of the backing reader; every block decoded so far
\* is in cur_data under cur_key or in block_cache; and a block read from the
\* backing reader was read at the address the virtual position gave.
C37_StreamPosAndBlocksKept ==
    /\ readers[1].stream_pos = readers[1].inner
    /\ readers[1].cur_data.some <=> readers[1].cur_key.some
    /\ \A k \in DOMAIN decoders :
           \/ k \in DOMAIN readers[1].block_cache
           \/ readers[1].cur_data.some /\ readers[1].cur_key = Some(k)
    /\ (cLast.op = "read" /\ cLast.from >= 0) => cLast.from = cLast.key


(***************************************************************************)
(* Lookup tables of several blocks                                         *)
(***************************************************************************)
\* C38: reading a fragment table of N records reads ceil(N / 512) block pointers and
\* yields the N records in index order, record i from the block pointer i / 512
\* names, whatever the order of the blocks in the image; N = 0 reads no pointer and
\* no record.
C38_LookupTableRecords ==
    (fsLast.op = "read" /\ fsLast.what = "FragmentTable") =>
        LET per == MetadataBlockSize \div FragByteSize
            exact == U32Div(fsLast.item_count, per)
                         + (IF U32Rem(fsLast.item_count, per) = 0 THEN 0 ELSE 1)
        IN  /\ fsLast.block_count = Ok(exact)
            /\ fsLast.item_count = ToU32(fsLast.n) =>
                   /\ fsLast.res.ok
                   /\ Len(fsLast.res.val.block_offsets) = exact
                   /\ fsLast.res.val.entries =
                          [i \in 1 .. fsLast.n |-> FragmentEntryFromBytes(FragRecord(i - 1))]


(***************************************************************************)
(* The listing of a directory                                              *)
(***************************************************************************)
\* C39: decoding the listing of a directory inode of stored size s never panics, loads
\* no table beyond the first s - 3 bytes of the listing (none at all for s <= 3),
\* succeeds only when the tables loaded take s - 3 bytes exactly, and fails with
\* UnexpectedEof otherwise.
C39_ListingIsSizeLessThree ==
    (fsLast.op = "read_for_inode") =>
        LET s == fsLast.file_size.lo
        IN  /\ fsLast.res # Panic
            /\ fsLast.loaded <= (IF s < 3 THEN 0 ELSE s - 3)
            /\ fsLast.res.ok => fsLast.loaded = s - 3
            /\ s = 3 => fsLast.res = Ok(<<>>)
            /\ ~fsLast.res.ok => fsLast.res.val = "UnexpectedEof"


(***************************************************************************)
(* The resolved components at a root component                             *)
(***************************************************************************)
\* the symlink targets of an image
SymlinkTargets(img) ==
    {img.inodes[k].target :
        k \in {n \in DOMAIN img.inodes : img.inodes[n].kind \in {"BasicSymlink", "ExtSymlink"}}}

\* the loop of resolve_absolute_path is about to take a root component
AtRootDir ==
    /\ fsLast.op = "canonicalize"
    /\ walk.status = "run"
    /\ NextComponent(walk.rest, walk.at_start).some
    /\ NextComponent(walk.rest, walk.at_start).comp.kind = "RootDir"

\* C40: whenever the loop of resolve_absolute_path takes a root component nothing is
\* resolved yet, so the assertion of that arm never fires; a turn that substitutes a
\* symlink puts the target in front of the components left, keeps the resolved
\* components for a relative target and clears them for an absolute one.
C40_RootSeesNothingResolved ==
    /\ [](AtRootDir => walk.resolved = <<>>)
    /\ [](fsLast.op = "canonicalize" => walk.res # Panic)
    /\ [][(fsLast.op = "canonicalize" /\ walk'.status = "run" /\ walk'.at_start)
             => /\ \E target \in SymlinkTargets(fsImg) :
                       walk'.rest = Join(target,
                                         AsPath(NextComponent(walk.rest, walk.at_start).rest))
                /\ walk'.resolved = IF walk'.rest[1] = "/" THEN <<>> ELSE walk.resolved]_vars

\* /a/link/ with link pointing to /f: the target has been substituted, a was resolved
\* before, and the root component of the target is next
C40_Witness ==
    /\ AtRootDir
    /\ fsLast.path = <<"/", "a", "/", "link", "/">>
    /\ walk.rest = <<"/", "f", "/">>
    /\ walk.resolved = <<>>

====
